---- MODULE Spec2Model ----
(***************************************************************************)
(* State-machine model of the HARMONY student dashboard: the tracker       *)
(* modules (AcademicTracker, FinancialPlanner, CareerGuide,                *)
(* MentalWellnessCoach), the DataManager they persist through, the login   *)
(* with its sample data, the AI content cache and the learning-resource    *)
(* search of app.py, and the PredictiveEngine.                             *)
(*                                                                         *)
(* Python floats are modelled as exact rationals [num, den]; a JSON        *)
(* document on disk is modelled by the value last written to it.           *)
(***************************************************************************)
EXTENDS Integers, Sequences, FiniteSets, TLC

VARIABLES
    performance,        \* AcademicTracker.performance (list of semester entries)
    diskPerformance,    \* data/academic/<student>/performance.json
    raised,             \* exception escaping the last tracker call ("none" if none)
    transactions,       \* FinancialPlanner.transactions
    budget,             \* FinancialPlanner.budget (category -> ceiling)
    diskTransactions,   \* data/financial/<student>/transactions.json
    diskBudget,         \* data/financial/<student>/budget.json
    career_data,        \* CareerGuide.career_data
    skills,             \* CareerGuide.skills
    experiences,        \* CareerGuide.experiences
    opportunities,      \* CareerGuide.opportunities
    returned,           \* value returned by the last CareerGuide call
    cached_content,     \* st.session_state.cached_content
    groq_api_key,       \* st.session_state.groq_api_key
    ai_initialized,     \* st.session_state.ai_agent.initialized
    student_profile,    \* st.session_state.student_profile is not None
    now,                \* datetime.now(), in half days
    call,               \* the last step: handler, force argument, requests issued
    replies,            \* what the CompletionService answered to those requests
    all_failed,         \* every request of the session so far has failed
    resources,          \* st.session_state.cached_content["resources"]
    search,             \* the last search of show_resources_page and what it showed
    files,              \* the JSON documents PredictiveEngine loads, by module
    engine_profile,     \* PredictiveEngine.student_profile (year of study, or "None")
    recommendations_cache,  \* PredictiveEngine.recommendations_cache (<<>> for None)
    last_update,        \* PredictiveEngine.last_update, in half hours
    engine_now,         \* datetime.now() of the engine's calls, in half hours
    engine_call,        \* the last engine step and what it returned or raised
    courses,            \* AcademicTracker.courses
    diskCourses,        \* data/academic/<student>/courses.json
    course_call,        \* the last course operation, what it returned, if it saved
    habits,             \* MentalWellnessCoach.habits
    diskHabits,         \* data/wellness/<student>/habits.json
    today,              \* datetime.now().date(), as a day number
    habit_call,         \* the last habit operation, what it returned, if it saved
    logins,             \* how many times initialize_modules has run for the student
    acknowledged        \* the transactions whose add_transaction returned True

academicVars == <<performance, diskPerformance, raised>>
financialVars == <<transactions, budget, diskTransactions, diskBudget>>
careerVars == <<career_data, skills, experiences, opportunities, returned>>
cacheVars == <<cached_content, groq_api_key, ai_initialized, student_profile, now, call,
               replies, all_failed, resources, search>>
engineVars == <<files, engine_profile, recommendations_cache, last_update, engine_now,
                engine_call>>
courseVars == <<courses, diskCourses, course_call>>
habitVars == <<habits, diskHabits, today, habit_call>>
sessionVars == <<logins, acknowledged>>
moreVars == <<courseVars, habitVars, sessionVars>>
vars == <<academicVars, financialVars, careerVars, cacheVars, engineVars, moreVars>>

(***************************************************************************)
(* Bounds of the model                                                     *)
(***************************************************************************)
MaxSem == 3             \* semester entries held by one tracker
MaxTx == 2              \* transactions held by one planner
MaxSkills == 6          \* skills held by one career guide
MaxExperiences == 4     \* experiences held by one career guide
MaxOpportunities == 6   \* opportunities held by one career guide
MaxTime == 3            \* half days the clock advances
MaxClock == 2           \* half hours the engine's clock advances
MaxTasks == 3           \* tasks in the tasks document
MaxCourses == 2         \* courses held by one tracker
MaxHabits == 1          \* habits held by one coach
MaxDay == 2             \* days the calendar advances
MaxLogins == 2          \* logins of the student

SgpaValues == {6, 9}
CreditValues == {0, 2, 3}
SemesterIndexes == {1, 2, 3}

(***************************************************************************)
(* Rationals standing for Python floats                                    *)
(***************************************************************************)
Rat(n, d) == [num |-> n, den |-> d]
RatEq(a, b) == a.num * b.den = b.num * a.den
\* a <= b, for positive denominators
RatLeq(a, b) == a.num * b.den <= b.num * a.den

(***************************************************************************)
(* DataManager                                                             *)
(***************************************************************************)
\* save_data returns True after json.dump, False when anything raised
SaveOutcomes == BOOLEAN
save_data(ok, old, data) == IF ok THEN data ELSE old

\* load_data(...) or []
load_data_or_empty(doc) == doc

(***************************************************************************)
(* AcademicTracker                                                         *)
(***************************************************************************)
RECURSIVE SumCredits(_)
SumCredits(perf) ==
    IF perf = <<>> THEN 0
    ELSE Head(perf).credits + SumCredits(Tail(perf))

RECURSIVE SumWeighted(_)
SumWeighted(perf) ==
    IF perf = <<>> THEN 0
    ELSE Head(perf).sgpa * Head(perf).credits + SumWeighted(Tail(perf))

\* insert e into a list sorted by semester_index, after the entries that
\* compare equal (sorted() is stable)
RECURSIVE InsertByIndex(_, _)
InsertByIndex(e, sorted) ==
    IF sorted = <<>> THEN <<e>>
    ELSE IF e.semester_index < Head(sorted).semester_index
         THEN <<e>> \o sorted
         ELSE <<Head(sorted)>> \o InsertByIndex(e, Tail(sorted))

\* sorted(self.performance, key=lambda x: x.get("semester_index", 0))
RECURSIVE SortedByIndex(_)
SortedByIndex(perf) ==
    IF perf = <<>> THEN <<>>
    ELSE InsertByIndex(perf[Len(perf)], SortedByIndex(SubSeq(perf, 1, Len(perf) - 1)))

\* mutant: plain mean of the sgpa values instead of the credit-weighted mean
RECURSIVE SumSgpa(_)
SumSgpa(perf) ==
    IF perf = <<>> THEN 0 ELSE Head(perf).sgpa + SumSgpa(Tail(perf))

ComputeCgpa_unweighted(perf, sgpa, credits) ==
    IF perf = <<>>
    THEN [exc |-> "none", val |-> Rat(sgpa, 1)]
    ELSE [exc |-> "none", val |-> Rat(SumSgpa(perf) + sgpa, Len(perf) + 1)]

\* mutant: the division is not guarded by total_credits > 0
ComputeCgpa_unguarded(perf, sgpa, credits) ==
    IF perf = <<>>
    THEN [exc |-> "none", val |-> Rat(sgpa, 1)]
    ELSE LET total_credits == SumCredits(perf) + credits
             weighted_sum == SumWeighted(perf) + sgpa * credits
         IN  IF total_credits # 0
             THEN [exc |-> "none", val |-> Rat(weighted_sum, total_credits)]
             ELSE [exc |-> "ZeroDivisionError", val |-> Rat(0, 1)]

\* the value of performance_data["cgpa"], or the exception the division raises
ComputeCgpa(perf, sgpa, credits) ==
    IF perf = <<>>
    THEN [exc |-> "none", val |-> Rat(sgpa, 1)]
    ELSE LET sorted_performance == SortedByIndex(perf)
             total_credits == SumCredits(sorted_performance) + credits
             weighted_sum == SumWeighted(sorted_performance) + sgpa * credits
         IN  IF total_credits > 0
             THEN [exc |-> "none", val |-> Rat(weighted_sum, total_credits)]
             ELSE [exc |-> "none", val |-> Rat(0, 1)]

\* a caller's performance_data; without sgpa/credits the .get defaults are 0
PerformanceData(idx, graded, sgpa, credits) ==
    [semester_index |-> idx, graded |-> graded,
     sgpa |-> IF graded THEN sgpa ELSE 0,
     credits |-> IF graded THEN credits ELSE 0,
     has_cgpa |-> FALSE, cgpa |-> Rat(0, 1)]

\* mutant: the sorted copy replaces self.performance before the append
add_semester_performance_sorted(idx, graded, sgpa, credits, ok) ==
    /\ Len(performance) < MaxSem
    /\ LET data == PerformanceData(idx, graded, sgpa, credits)
           c == ComputeCgpa(performance, data.sgpa, data.credits)
           entry == IF graded
                    THEN [data EXCEPT !.has_cgpa = TRUE, !.cgpa = c.val]
                    ELSE data
           appended == Append(SortedByIndex(performance), entry)
       IN  /\ performance' = appended
           /\ diskPerformance' = save_data(ok, diskPerformance, appended)
           /\ raised' = "none"

add_semester_performance(idx, graded, sgpa, credits, ok) ==
    /\ Len(performance) < MaxSem
    /\ LET data == PerformanceData(idx, graded, sgpa, credits)
           c == ComputeCgpa(performance, data.sgpa, data.credits)
       IN  IF graded /\ c.exc # "none"
           THEN /\ raised' = c.exc
                /\ UNCHANGED <<performance, diskPerformance>>
           ELSE LET entry == IF graded
                             THEN [data EXCEPT !.has_cgpa = TRUE, !.cgpa = c.val]
                             ELSE data
                    appended == Append(performance, entry)
                IN  /\ performance' = appended
                    /\ diskPerformance' = save_data(ok, diskPerformance, appended)
                    /\ raised' = "none"

\* AcademicTracker.__init__: a new tracker for the same student (every login)
AcademicTrackerInit ==
    /\ performance' = load_data_or_empty(diskPerformance)
    /\ raised' = "none"
    /\ UNCHANGED diskPerformance

\* index of the first entry with the highest semester_index (Python max)
RECURSIVE MaxPos(_, _, _)
MaxPos(perf, i, best) ==
    IF i > Len(perf) THEN best
    ELSE IF perf[i].semester_index > perf[best].semester_index
         THEN MaxPos(perf, i + 1, i)
         ELSE MaxPos(perf, i + 1, best)

\* mutant: the most recently inserted entry instead of the highest index
get_current_cgpa_last(perf) ==
    IF perf = <<>> THEN Rat(0, 1)
    ELSE LET latest == perf[Len(perf)]
         IN  IF latest.has_cgpa THEN latest.cgpa ELSE Rat(0, 1)

get_current_cgpa(perf) ==
    IF perf = <<>> THEN Rat(0, 1)
    ELSE LET latest == perf[MaxPos(perf, 1, 1)]
         IN  IF latest.has_cgpa THEN latest.cgpa ELSE Rat(0, 1)

(***************************************************************************)
(* Dates as the ISO strings the callers store, relative to the current     *)
(* month: month -1/0/1 is the previous/current/next month, day 1 is the    *)
(* first day of a month, and time is the part after the date:              *)
(* 0 for none (date.isoformat(), "YYYY-MM-DD"), 1 for "T00:00:00",         *)
(* 2 for a later time of day (datetime.isoformat()).                       *)
(***************************************************************************)
IsoDate(month, day, time) == [month |-> month, day |-> day, time |-> time]

\* a >= b on strings: the fixed-width date part compares as the date does,
\* and a string that is a proper prefix of another is the smaller one
StrGeq(a, b) ==
    \/ a.month > b.month
    \/ a.month = b.month /\ a.day > b.day
    \/ a.month = b.month /\ a.day = b.day /\ a.time >= b.time

\* datetime(now.year, now.month, 1).isoformat()
month_start == IsoDate(0, 1, 1)

DateValues ==
    { IsoDate(-1, 2, 0),    \* a day of the previous month
      IsoDate(0, 1, 0),     \* first day of this month, from the date picker
      IsoDate(0, 1, 2),     \* first day of this month, with a time of day
      IsoDate(0, 2, 0),     \* a later day of this month
      IsoDate(1, 1, 0) }    \* first day of the next month

Categories == {"Food", "Books"}
AmountValues == {-1, 2}

\* the budget dicts a caller passes to set_budget
BudgetValues ==
    { [c \in {} |-> 0],
      [c \in {"Food"} |-> 0],
      [c \in {"Food"} |-> 1],
      [c \in Categories |-> 1] }

(***************************************************************************)
(* FinancialPlanner                                                        *)
(***************************************************************************)
Abs(x) == IF x < 0 THEN -x ELSE x

RECURSIVE SumValues(_)
\* sum(d.values())
SumValues(d) ==
    IF DOMAIN d = {} THEN 0
    ELSE LET k == CHOOSE x \in DOMAIN d : TRUE
         IN  d[k] + SumValues([x \in DOMAIN d \ {k} |-> d[x]])

add_transaction(amount, category, date, ok) ==
    /\ Len(transactions) < MaxTx
    /\ LET transaction_data == [amount |-> amount, category |-> category, date |-> date]
           appended == Append(transactions, transaction_data)
       IN  /\ transactions' = appended
           /\ diskTransactions' = save_data(ok, diskTransactions, appended)
    /\ UNCHANGED <<budget, diskBudget>>

set_budget(budget_data, ok) ==
    /\ budget' = budget_data
    /\ diskBudget' = save_data(ok, diskBudget, budget_data)
    /\ UNCHANGED <<transactions, diskTransactions>>

\* FinancialPlanner.__init__: a new planner for the same student
FinancialPlannerInit ==
    /\ transactions' = load_data_or_empty(diskTransactions)
    /\ budget' = load_data_or_empty(diskBudget)
    /\ UNCHANGED <<diskTransactions, diskBudget>>

\* the month filter of get_actual_spending
InMonthExpense(t) == StrGeq(t.date, month_start) /\ t.amount < 0

RECURSIVE GroupSpending(_, _)
\* the loop of get_actual_spending over month_transactions
GroupSpending(txs, spending) ==
    IF txs = <<>> THEN spending
    ELSE LET t == Head(txs)
             amount == Abs(t.amount)
         IN  IF t.category \in DOMAIN spending
             THEN GroupSpending(Tail(txs), [spending EXCEPT ![t.category] = @ + amount])
             ELSE GroupSpending(Tail(txs),
                     [c \in DOMAIN spending \cup {t.category} |->
                         IF c = t.category THEN amount ELSE spending[c]])

get_actual_spending(txs) ==
    LET month_transactions == SelectSeq(txs, InMonthExpense)
    IN  GroupSpending(month_transactions, [c \in {} |-> 0])

RatMin(a, b) == IF RatLeq(a, b) THEN a ELSE b
RatMax(a, b) == IF RatLeq(a, b) THEN b ELSE a

\* mutant: the adherence is returned without the clamp to 0..100
get_budget_adherence_unclamped(bud, txs) ==
    IF DOMAIN bud = {} THEN Rat(0, 1)
    ELSE LET total_budget == SumValues(bud)
             total_spending == SumValues(get_actual_spending(txs))
         IN  IF total_budget = 0 THEN Rat(0, 1)
             ELSE Rat((total_budget - total_spending) * 100, total_budget)

get_budget_adherence(bud, txs) ==
    IF DOMAIN bud = {} THEN Rat(0, 1)
    ELSE LET actual_spending == get_actual_spending(txs)
             total_budget == SumValues(bud)
             total_spending == SumValues(actual_spending)
         IN  IF total_budget = 0 THEN Rat(0, 1)
             ELSE LET adherence == Rat((total_budget - total_spending) * 100, total_budget)
                  IN  RatMax(Rat(0, 1), RatMin(Rat(100, 1), adherence))

\* the attributes DataManager.__init__ assigns
DataManagerAttributes == {"data_dir"}

\* DataManager.get_data reads self.data: without that attribute the
\* AttributeError is caught and the default returned; no method of the
\* repository ever stores anything under self.data, so a lookup in it
\* would miss and return the default as well
get_data(data_type, default) ==
    IF "data" \notin DataManagerAttributes THEN default ELSE default

\* FinancialPlanner.get_all_transactions
get_all_transactions == get_data("financial_transactions", <<>>)

IsExpense(t) == t.amount < 0

RECURSIVE GroupExpenses(_, _)
\* the grouping loop of get_expenses_by_category; the result keeps the
\* order in which the categories were first met (dict insertion order)
GroupExpenses(txs, result) ==
    IF txs = <<>> THEN result
    ELSE LET t == Head(txs)
             amount == Abs(t.amount)
             pos == {i \in 1..Len(result) : result[i].category = t.category}
         IN  IF pos = {}
             THEN GroupExpenses(Tail(txs),
                     Append(result, [category |-> t.category, amount |-> amount]))
             ELSE GroupExpenses(Tail(txs),
                     [i \in 1..Len(result) |->
                         IF i \in pos THEN [result[i] EXCEPT !.amount = @ + amount]
                         ELSE result[i]])

RECURSIVE InsertByAmountDesc(_, _)
InsertByAmountDesc(e, sorted) ==
    IF sorted = <<>> THEN <<e>>
    ELSE IF e.amount > Head(sorted).amount
         THEN <<e>> \o sorted
         ELSE <<Head(sorted)>> \o InsertByAmountDesc(e, Tail(sorted))

RECURSIVE SortByAmountDesc(_)
\* result.sort(key=lambda x: x["amount"], reverse=True), a stable sort
SortByAmountDesc(result) ==
    IF result = <<>> THEN <<>>
    ELSE InsertByAmountDesc(result[Len(result)],
                            SortByAmountDesc(SubSeq(result, 1, Len(result) - 1)))

get_expenses_by_category ==
    LET expenses == SelectSeq(get_all_transactions, IsExpense)
    IN  SortByAmountDesc(GroupExpenses(expenses, <<>>))

(***************************************************************************)
(* initialize_sample_data, the financial part: a planner of its own loads  *)
(* the documents, asks get_all_transactions whether the student has        *)
(* transactions, and adds three sample transactions and a sample budget    *)
(* when the answer is empty.  The dates are ten, five and fifteen days     *)
(* before the login, with a time of day.                                   *)
(***************************************************************************)
sample_transactions ==
    << [amount |-> -2000, category |-> "Books & Supplies", date |-> IsoDate(0, 2, 2)],
       [amount |-> -800, category |-> "Food", date |-> IsoDate(0, 2, 2)],
       [amount |-> 5000, category |-> "Pocket Money", date |-> IsoDate(-1, 2, 2)] >>

sample_budget ==
    [c \in {"Food & Dining", "Transportation", "Books & Supplies", "Rent & Utilities",
            "Entertainment", "Personal Care", "Mobile & Internet", "Clothing",
            "Miscellaneous"} |->
        CASE c = "Food & Dining" -> 4000
          [] c = "Transportation" -> 1500
          [] c = "Books & Supplies" -> 2000
          [] c = "Rent & Utilities" -> 0
          [] c = "Entertainment" -> 1000
          [] c = "Personal Care" -> 800
          [] c = "Mobile & Internet" -> 600
          [] c = "Clothing" -> 500
          [] c = "Miscellaneous" -> 1000]

\* the loop over sample_transactions: each add_transaction appends to the
\* planner's list and saves the whole list; oks[k] is the outcome of the
\* k-th save.  The result is the document and the samples that were
\* acknowledged with True.
RECURSIVE AddSamples(_, _, _, _, _)
AddSamples(k, list, doc, oks, added) ==
    IF k > Len(sample_transactions) THEN [doc |-> doc, added |-> added]
    ELSE LET appended == Append(list, sample_transactions[k])
         IN  AddSamples(k + 1, appended, save_data(oks[k], doc, appended), oks,
                        IF oks[k] THEN added \cup {sample_transactions[k]} ELSE added)

\* what initialize_sample_data leaves in transactions.json and budget.json
initialize_sample_data(doc, budget_doc, oks) ==
    LET financial == load_data_or_empty(doc)
        all_transactions == get_all_transactions
        has_transactions == all_transactions # <<>> /\ Len(all_transactions) > 0
    IN  IF ~has_transactions
        THEN LET samples == AddSamples(1, financial, doc, oks, {})
             IN  [transactions |-> samples.doc,
                  budget |-> save_data(oks[Len(sample_transactions) + 1],
                                       budget_doc, sample_budget),
                  added |-> samples.added]
        ELSE [transactions |-> doc, budget |-> budget_doc, added |-> {}]

(***************************************************************************)
(* CareerGuide                                                             *)
(*                                                                         *)
(* career_data is the dict read through .get: a key that is absent reads   *)
(* as its default (falsy, or 0 for network_size), so the record keeps the  *)
(* truthiness of interests, target_roles and resume and the number under   *)
(* network_size.  Skill and experience records differ only in their uuid   *)
(* and in fields the score never reads; each is kept as one anonymous      *)
(* record.  An opportunity is kept as its status.  The career documents    *)
(* written by save_data are read by CareerGuide.__init__ only, so they are *)
(* not part of the state of the one guide followed here; save_data shows   *)
(* in the value the call returns.                                          *)
(***************************************************************************)
NetworkSizes == {0, 3, 60}
Statuses == {"Applied", "Bookmarked"}
SkillRecord == "skill"
ExperienceRecord == "experience"

\* the preferences dicts a caller passes to update_career_preferences
PreferenceValues ==
    [key : {"interests", "target_roles", "resume"}, value : BOOLEAN]
    \cup [key : {"network_size"}, value : NetworkSizes]

update_career_preferences(preferences, ok) ==
    /\ career_data' = [career_data EXCEPT ![preferences.key] = preferences.value]
    /\ returned' = ok
    /\ UNCHANGED <<skills, experiences, opportunities>>

add_skill(ok) ==
    /\ Len(skills) < MaxSkills
    /\ skills' = Append(skills, SkillRecord)
    /\ returned' = ok
    /\ UNCHANGED <<career_data, experiences, opportunities>>

\* found: skill_id is the id of one of the stored skills
delete_skill(found, ok) ==
    /\ found => skills # <<>>
    /\ skills' = IF found THEN Tail(skills) ELSE skills
    /\ returned' = IF found THEN ok ELSE FALSE
    /\ UNCHANGED <<career_data, experiences, opportunities>>

add_experience(ok) ==
    /\ Len(experiences) < MaxExperiences
    /\ experiences' = Append(experiences, ExperienceRecord)
    /\ returned' = ok
    /\ UNCHANGED <<career_data, skills, opportunities>>

\* found: experience_id is the id of one of the stored experiences
delete_experience(found, ok) ==
    /\ found => experiences # <<>>
    /\ experiences' = IF found THEN Tail(experiences) ELSE experiences
    /\ returned' = IF found THEN ok ELSE FALSE
    /\ UNCHANGED <<career_data, skills, opportunities>>

add_opportunity(status, ok) ==
    /\ Len(opportunities) < MaxOpportunities
    /\ opportunities' = Append(opportunities, status)
    /\ returned' = ok
    /\ UNCHANGED <<career_data, skills, experiences>>

RatAdd(a, b) == Rat(a.num * b.den + b.num * a.den, a.den * b.den)
IntMin(a, b) == IF a <= b THEN a ELSE b

IsApplied(status) == status = "Applied"

\* mutant: 5 points per skill instead of 4
get_career_readiness_score_skill5(data, sk, ex, opps) ==
    LET basics == (IF data.interests THEN 10 ELSE 0)
                  + (IF data.target_roles THEN 10 ELSE 0)
                  + (IF data.resume THEN 15 ELSE 0)
        skill_points == IF sk # <<>> THEN IntMin(20, Len(sk) * 5) ELSE 0
        experience_points == IF ex # <<>> THEN IntMin(25, Len(ex) * 8) ELSE 0
        network_points == RatMin(Rat(10, 1), Rat(data.network_size, 5))
        applications == SelectSeq(opps, IsApplied)
        application_points == IntMin(10, Len(applications) * 2)
        score == RatAdd(Rat(basics + skill_points + experience_points
                            + application_points, 1),
                        network_points)
    IN  RatMin(Rat(100, 1), RatMax(Rat(0, 1), score))

get_career_readiness_score(data, sk, ex, opps) ==
    LET basics == (IF data.interests THEN 10 ELSE 0)
                  + (IF data.target_roles THEN 10 ELSE 0)
                  + (IF data.resume THEN 15 ELSE 0)
        skill_points == IF sk # <<>> THEN IntMin(20, Len(sk) * 4) ELSE 0
        experience_points == IF ex # <<>> THEN IntMin(25, Len(ex) * 8) ELSE 0
        network_points == RatMin(Rat(10, 1), Rat(data.network_size, 5))
        applications == SelectSeq(opps, IsApplied)
        application_points == IntMin(10, Len(applications) * 2)
        score == RatAdd(Rat(basics + skill_points + experience_points
                            + application_points, 1),
                        network_points)
    IN  RatMin(Rat(100, 1), RatMax(Rat(0, 1), score))

(***************************************************************************)
(* AIAdvisorAgent and the content cache of app.py                          *)
(*                                                                         *)
(* A cached payload is kept as what it is: "None", the static "fallback"   *)
(* list, a "live" list parsed from the model's text, or a "scalar" (a      *)
(* parsed JSON number or object, which is not a list).  A key that is      *)
(* absent from cached_content reads as "None".  Time is counted in half    *)
(* days, so timedelta.days is the difference divided by 2, rounded down.   *)
(***************************************************************************)
NoTime == <<>>
At(t) == <<t>>

MainKinds == <<"academic_trends", "financial_tips", "wellness_tips", "career_insights">>
NewsKeys == <<"education_news", "finance_news", "wellness_news", "career_news">>

\* what the CompletionService does with one request: the POST raises, the
\* status is not 200, or the reply's text is a JSON array inside prose, a
\* JSON array followed by prose that has brackets of its own, a JSON number
\* or object without brackets, the JSON null, or text json.loads rejects
Responses == {"transport_error", "status_error", "array", "array_then_brackets",
              "scalar", "null", "garbage"}
FailureResponses == {"transport_error", "status_error"}

\* the text of a reply, as a sequence of tokens: the brackets "[" and "]",
\* a JSON object "obj" (no bracket inside), a JSON number "num", the JSON
\* "null", and a "word" of prose; the commas of an array are left out
Text(response) ==
    CASE response = "array" -> <<"word", "[", "obj", "obj", "]", "word">>
      [] response = "array_then_brackets" ->
             <<"[", "obj", "]", "word", "[", "num", "]">>
      [] response = "scalar" -> <<"num">>
      [] response = "null" -> <<"null">>
      [] response = "garbage" -> <<"word", "word">>

\* the answers to the requests of one refresh (1..4 the MainKinds, 5..8 the
\* news categories): the same answer to every request, or a service that
\* is up (or down) for every request but one of the first two
ResponsePatterns ==
    { [r \in 1..8 |-> base] : base \in Responses }
    \cup { [r \in 1..8 |-> IF r = k THEN dev ELSE base] :
              base \in {"array", "transport_error"}, dev \in Responses, k \in 1..2 }

\* a service that is up, or down, throughout a refresh
SteadyPatterns == { [r \in 1..8 |-> base] : base \in {"array", "transport_error"} }

\* the answers that matter to a call: none is read when no request is issued
IdlePattern == [r \in 1..8 |-> "transport_error"]
PatternsFor(patterns, refreshes) == IF refreshes THEN patterns ELSE {IdlePattern}

\* AIAdvisorAgent._make_groq_request, for an initialized agent: <<>> for
\* None, else the one-element tuple of the reply's text
_make_groq_request(response) ==
    IF response \in FailureResponses THEN <<>> ELSE <<Text(response)>>

Positions(content, token) == {i \in 1..Len(content) : content[i] = token}
SetMin(S) == CHOOSE x \in S : \A y \in S : x <= y
SetMax(S) == CHOOSE x \in S : \A y \in S : x >= y

\* re.search(r'\[.*\]', content, re.DOTALL): <<>> for no match, else the
\* one-element tuple of group(); the match starts at the first "[" and,
\* .* being greedy, runs to the last "]"
re_search(content) ==
    LET opens == Positions(content, "[")
        closes == Positions(content, "]")
    IN  IF opens = {} \/ closes = {} \/ SetMax(closes) < SetMin(opens)
        THEN <<>>
        ELSE <<SubSeq(content, SetMin(opens), SetMax(closes))>>

\* nesting depth after the first k tokens
Depth(content, k) ==
    Cardinality({i \in Positions(content, "[") : i <= k})
        - Cardinality({i \in Positions(content, "]") : i <= k})

\* the text is one JSON array and nothing else
IsJsonArray(content) ==
    /\ Len(content) >= 2
    /\ content[1] = "[" /\ content[Len(content)] = "]"
    /\ Positions(content, "word") = {}
    /\ \A k \in 1..(Len(content) - 1) : Depth(content, k) >= 1
    /\ Depth(content, Len(content)) = 0

\* json.loads: "live" for a parsed list, "scalar" for a number or an
\* object, "None" for null, "error" when it raises
json_loads(content) ==
    IF IsJsonArray(content) THEN "live"
    ELSE IF content \in {<<"num">>, <<"obj">>} THEN "scalar"
    ELSE IF content = <<"null">> THEN "None"
    ELSE "error"

\* the inner try block of a getter: the bracketed part of the text if
\* there is one, else the whole text, handed to json.loads
ParseContent(content) ==
    LET json_match == re_search(content)
    IN  IF json_match # <<>> THEN json_loads(json_match[1])
        ELSE json_loads(content)

\* ParseContent, tabulated over the texts the service can reply with
Texts == {Text(response) : response \in Responses \ FailureResponses}
ParsedTexts == [content \in Texts |-> ParseContent(content)]

\* mutant: a getter that hands the missing reply on instead of falling back
get_content_nofallback(response) ==
    LET reply == _make_groq_request(response)
    IN  IF reply # <<>>
        THEN LET parsed == ParsedTexts[reply[1]]
             IN  IF parsed = "error" THEN "fallback" ELSE parsed
        ELSE "None"

\* get_academic_trends, get_financial_advice, get_wellness_tips and
\* get_career_insights of an initialized agent
get_content(response) ==
    LET reply == _make_groq_request(response)
    IN  IF reply # <<>>
        THEN LET parsed == ParsedTexts[reply[1]]
             IN  IF parsed = "error" THEN "fallback" ELSE parsed
        ELSE "fallback"

\* the static tables of _get_fallback_academic_trends,
\* _get_fallback_financial_advice, _get_fallback_wellness_tips,
\* _get_fallback_career_insights (three items with the same keys in each
\* of their three degree branches) and of fetch_trending_news: the payload
\* "fallback" of a kind stands for this list
FallbackTable(kind) ==
    CASE kind = "academic_trends" ->
             [len |-> 3, keys |-> {"trend", "description", "benefit"}]
      [] kind = "financial_tips" ->
             [len |-> 3, keys |-> {"tip", "description", "action_item"}]
      [] kind = "wellness_tips" ->
             [len |-> 3, keys |-> {"tip", "description", "practice"}]
      [] kind = "career_insights" ->
             [len |-> 3, keys |-> {"trend", "insight", "action"}]
      [] OTHER -> [len |-> 3, keys |-> {"title", "date", "source"}]

\* the four getters: the fallback table at once when the agent has no key
get_academic_trends(initialized, response) ==
    IF ~initialized THEN "fallback" ELSE get_content(response)

get_financial_advice(initialized, response) ==
    IF ~initialized THEN "fallback" ELSE get_content(response)

get_wellness_tips(initialized, response) ==
    IF ~initialized THEN "fallback" ELSE get_content(response)

get_career_insights(initialized, response) ==
    IF ~initialized THEN "fallback" ELSE get_content(response)

\* fetch_trending_news: cached[:max_items] when the cached news is truthy
\* (slicing a number or an object raises TypeError), else the static table
fetch_trending_news(cached) ==
    IF cached = "None" THEN [exc |-> "none", val |-> "fallback"]
    ELSE IF cached = "scalar" THEN [exc |-> "TypeError", val |-> "None"]
    ELSE [exc |-> "none", val |-> cached]

\* get_latest_news; an exception of fetch_trending_news is raised again by
\* the except handler
get_latest_news(initialized, response, cached) ==
    LET reply == _make_groq_request(response)
    IN  IF ~initialized THEN fetch_trending_news(cached)
        ELSE IF reply # <<>>
        THEN LET parsed == ParsedTexts[reply[1]]
             IN  IF parsed = "error" THEN fetch_trending_news(cached)
                 ELSE [exc |-> "none", val |-> parsed]
        ELSE fetch_trending_news(cached)

\* mutant: the staleness test refreshes within the day and skips after it
ShouldSkip_inverted(force, last_updated, current_time) ==
    /\ ~force
    /\ last_updated # NoTime
    /\ (current_time - last_updated[1]) \div 2 >= 1

\* not force and last_updated and (current_time - last_updated).days < 1
ShouldSkip(force, last_updated, current_time) ==
    /\ ~force
    /\ last_updated # NoTime
    /\ (current_time - last_updated[1]) \div 2 < 1

RECURSIVE UpdateNews(_, _, _)
\* the four get_latest_news assignments, from the i-th on; stops at the
\* first exception, which update_content_cache catches
UpdateNews(cache, i, pattern) ==
    IF i > Len(NewsKeys)
    THEN [cache |-> cache, requests |-> 4 + Len(NewsKeys), exc |-> "none"]
    ELSE LET key == NewsKeys[i]
             news == get_latest_news(TRUE, pattern[4 + i], cache[key])
         IN  IF news.exc # "none"
             THEN [cache |-> cache, requests |-> 4 + i, exc |-> news.exc]
             ELSE UpdateNews([cache EXCEPT ![key] = news.val], i + 1, pattern)

\* update_content_cache(force), run with the given agent state, session
\* profile and clock: the new cached_content and the number of
\* CompletionService requests issued
\* update_content_cache gets past its early returns
Refreshes(cache, force, initialized, profile, current_time) ==
    /\ ~ShouldSkip(force, cache.last_updated, current_time)
    /\ initialized
    /\ profile

update_content_cache(cache, force, pattern, initialized, profile, current_time) ==
    IF ShouldSkip(force, cache.last_updated, current_time)
    THEN [cache |-> cache, requests |-> 0]
    ELSE IF ~initialized
    THEN [cache |-> cache, requests |-> 0]
    ELSE IF ~profile
    THEN [cache |-> cache, requests |-> 0]
    ELSE LET main == [cache EXCEPT
                        !.academic_trends = get_academic_trends(initialized, pattern[1]),
                        !.financial_tips = get_financial_advice(initialized, pattern[2]),
                        !.wellness_tips = get_wellness_tips(initialized, pattern[3]),
                        !.career_insights = get_career_insights(initialized, pattern[4])]
             news == UpdateNews(main, 1, pattern)
         IN  IF news.exc # "none"
             THEN [cache |-> news.cache, requests |-> news.requests]
             ELSE [cache |-> [news.cache EXCEPT !.last_updated = At(current_time)],
                   requests |-> news.requests]

(***************************************************************************)
(* The learning-resource search of show_resources_page                     *)
(*                                                                         *)
(* A query is the sequence of its characters.                              *)
(***************************************************************************)
Queries == {<<>>, <<"p", "y">>, <<" ", "P", "y", " ">>, <<"s">>}

\* what the service answers to a search: an array, nothing, or null
SearchResponses == {"array", "transport_error", "null"}

\* str.lower, character by character
lower_char(c) == CASE c = "P" -> "p" [] OTHER -> c
lower(str) == [i \in 1..Len(str) |-> lower_char(str[i])]

\* str.strip: drops the blanks before the first and after the last
\* character that is not one
strip(str) ==
    LET inked == {i \in 1..Len(str) : str[i] # " "}
    IN  IF inked = {} THEN <<>> ELSE SubSeq(str, SetMin(inked), SetMax(inked))

\* mutant: the cache is keyed by the query as typed
cache_key_raw(search_query) == search_query

\* cache_key = search_query.lower().strip()
cache_key(search_query) == strip(lower(search_query))

\* AIAdvisorAgent.get_learning_resources; its fallback is the static list
\* of _get_fallback_learning_resources
get_learning_resources(initialized, response) ==
    IF ~initialized THEN "fallback" ELSE get_content(response)

\* the search block of show_resources_page for a query and the answer the
\* service would give: what is shown (resources_data), the new resources
\* cache and the number of requests issued
search_resources(search_query, response, api_key, initialized, cache) ==
    IF search_query = <<>>
    THEN [resources_data |-> "None", resources |-> cache, requests |-> 0]
    ELSE IF api_key = "None"
    THEN [resources_data |-> "None", resources |-> cache, requests |-> 0]
    ELSE IF cache_key(search_query) \in DOMAIN cache
    THEN [resources_data |-> cache[cache_key(search_query)],
          resources |-> cache, requests |-> 0]
    ELSE LET resources_data == get_learning_resources(initialized, response)
         IN  [resources_data |-> resources_data,
              resources |-> (cache_key(search_query) :> resources_data) @@ cache,
              requests |-> IF initialized THEN 1 ELSE 0]

Call(op, force, requests) == [op |-> op, force |-> force, requests |-> requests]

\* the answers read by a call that issued the given number of requests
Served(pattern, requests) == SubSeq(pattern, 1, requests)
\* the service has still never answered, these answers included
StillAllFailed(failed, served) ==
    failed /\ \A i \in 1..Len(served) : served[i] \in FailureResponses

(***************************************************************************)
(* PredictiveEngine of prediction_engine.py                                *)
(*                                                                         *)
(* A recommendation is its title and priority.  A field a stored record    *)
(* may lack is kept as <<>> (absent) or <<value>>.  The engine's clock     *)
(* covers a few hours, so what the generators measure in days (days until  *)
(* a task is due, age of a study, mood or sleep entry) is a number of the  *)
(* record.  A generator returns [exc, val]: the exception it raises, or    *)
(* "none" and its list.                                                    *)
(***************************************************************************)
Rec(title, priority) == [title |-> title, priority |-> priority]
Returns(recs) == [exc |-> "none", val |-> recs]
Raises(exc) == [exc |-> exc, val |-> <<>>]

\* two parts of a generator, or two generators, run one after the other
Then(first, second) ==
    IF first.exc # "none" THEN first
    ELSE IF second.exc # "none" THEN Raises(second.exc)
    ELSE Returns(first.val \o second.val)

Task(due_date, status, described) ==
    [due_date |-> due_date, status |-> status, described |-> described]
Dated(date, amount) == [date |-> date, amount |-> amount]

RECURSIVE SumAmounts(_)
SumAmounts(entries) ==
    IF entries = <<>> THEN 0 ELSE Head(entries).amount + SumAmounts(Tail(entries))

\* task.get("due_date") and due_date - now <= 3 days and status != "completed";
\* the difference is negative for a task that is overdue
IsUpcoming(task) ==
    /\ task.due_date # <<>>
    /\ task.due_date[1] <= 3
    /\ task.status # "completed"

\* the deadline rule; task['type'], task['title'] and task['course_code']
\* are read of the first upcoming task when there are one or two
DeadlineRule(tasks) ==
    LET upcoming_tasks == SelectSeq(tasks, IsUpcoming)
    IN  IF upcoming_tasks = <<>> THEN Returns(<<>>)
        ELSE IF Len(upcoming_tasks) >= 3
        THEN Returns(<<Rec("Multiple Deadlines Approaching", "high")>>)
        ELSE IF upcoming_tasks[1].described
        THEN Returns(<<Rec("Due Soon", "medium")>>)
        ELSE Raises("KeyError")

\* the CGPA rule, on the two entries with the highest semester_index
CgpaRule(perf) ==
    IF Len(perf) >= 2
    THEN LET sorted_perf == SortedByIndex(perf)
             latest_cgpa == sorted_perf[Len(perf)].cgpa
             previous_cgpa == sorted_perf[Len(perf) - 1].cgpa
         IN  IF latest_cgpa < previous_cgpa
             THEN Returns(<<Rec("CGPA Declining", "high")>>)
             ELSE Returns(<<>>)
    ELSE Returns(<<>>)

HasDate(entry) == entry.date # <<>>
IsRecent(entry) == entry.date[1] < 7

\* the study rule; session["date"] is read of every session
StudyRule(study_data) ==
    IF study_data = <<>> THEN Returns(<<>>)
    ELSE IF \E i \in 1..Len(study_data) : ~HasDate(study_data[i])
    THEN Raises("KeyError")
    ELSE LET recent_study == SelectSeq(study_data, IsRecent)
         IN  IF recent_study = <<>>
             THEN Returns(<<Rec("No Recent Study Sessions", "medium")>>)
             ELSE IF SumAmounts(recent_study) < 10
             THEN Returns(<<Rec("Low Study Hours", "medium")>>)
             ELSE Returns(<<>>)

_generate_academic_recommendations(doc) ==
    Then(DeadlineRule(doc.tasks), Then(CgpaRule(doc.performance), StudyRule(doc.study_hours)))

\* month_expenses[category] of the budget rule
RECURSIVE MonthExpenses(_, _)
MonthExpenses(txs, category) ==
    IF txs = <<>> THEN 0
    ELSE LET transaction == Head(txs)
         IN  (IF /\ StrGeq(transaction.date[1], month_start)
                 /\ transaction.amount < 0
                 /\ transaction.category = category
              THEN Abs(transaction.amount) ELSE 0)
             + MonthExpenses(Tail(txs), category)

\* the budget rule; transaction.get("date") >= current_month_start raises
\* TypeError for a transaction without a date
BudgetRule(bud, txs) ==
    IF DOMAIN bud = {} THEN Returns(<<Rec("Set Up Your Budget", "high")>>)
    ELSE IF \E i \in 1..Len(txs) : ~HasDate(txs[i]) THEN Raises("TypeError")
    ELSE LET over_budget_categories ==
                 {c \in DOMAIN bud : bud[c] > 0 /\ MonthExpenses(txs, c) > bud[c]}
             \* percent_over of c is at least that of d
             AtLeast(c, d) == (MonthExpenses(txs, c) - bud[c]) * bud[d]
                                  >= (MonthExpenses(txs, d) - bud[d]) * bud[c]
         IN  IF over_budget_categories = {} THEN Returns(<<>>)
             ELSE LET most_over == CHOOSE c \in over_budget_categories :
                                       \A d \in over_budget_categories : AtLeast(c, d)
                      actual == MonthExpenses(txs, most_over)
                  IN  Returns(<<Rec("Budget Alert",
                                    IF (actual - bud[most_over]) * 100 > 50 * bud[most_over]
                                    THEN "high" ELSE "medium")>>)

AidRule(financial_aid) ==
    IF financial_aid = <<>>
    THEN Returns(<<Rec("Explore Scholarship Opportunities", "medium")>>)
    ELSE Returns(<<>>)

\* goal.get("name", "").lower().find("emergency") >= 0
NamesEmergency(name) == name \in {"Emergency fund", "EMERGENCY"}

EmergencyRule(goals) ==
    IF \E i \in 1..Len(goals) : NamesEmergency(goals[i])
    THEN Returns(<<>>)
    ELSE Returns(<<Rec("Start an Emergency Fund", "medium")>>)

_generate_financial_recommendations(doc) ==
    Then(BudgetRule(doc.budget, doc.transactions),
         Then(AidRule(doc.financial_aid), EmergencyRule(doc.goals)))

Mood(date, score, stress_factors) ==
    [date |-> date, amount |-> score, stress_factors |-> stress_factors]

RECURSIVE AllFactors(_)
AllFactors(entries) ==
    IF entries = <<>> THEN <<>>
    ELSE Head(entries).stress_factors \o AllFactors(Tail(entries))

\* the mood rules; entry["date"] is read of every mood entry
MoodRule(mood_data) ==
    IF mood_data = <<>> THEN Returns(<<Rec("Start Tracking Your Mood", "low")>>)
    ELSE IF \E i \in 1..Len(mood_data) : ~HasDate(mood_data[i]) THEN Raises("KeyError")
    ELSE LET recent_mood == SelectSeq(mood_data, IsRecent)
             stress_factors == AllFactors(recent_mood)
             Count(factor) ==
                 Cardinality({i \in 1..Len(stress_factors) : stress_factors[i] = factor})
             low == IF SumAmounts(recent_mood) < 4 * Len(recent_mood)
                    THEN <<Rec("Your Mood Has Been Low", "high")>> ELSE <<>>
             recurring == IF \E i \in 1..Len(stress_factors) :
                                 Count(stress_factors[i]) >= 3
                          THEN <<Rec("Managing a Stress Factor", "medium")>> ELSE <<>>
         IN  IF recent_mood = <<>> THEN Returns(<<>>) ELSE Returns(low \o recurring)

\* the sleep rule; entry["date"] is read of every sleep entry
SleepRule(sleep_data) ==
    IF sleep_data = <<>> THEN Returns(<<>>)
    ELSE IF \E i \in 1..Len(sleep_data) : ~HasDate(sleep_data[i]) THEN Raises("KeyError")
    ELSE LET recent_sleep == SelectSeq(sleep_data, IsRecent)
         IN  IF recent_sleep # <<>> /\ SumAmounts(recent_sleep) < 6 * Len(recent_sleep)
             THEN Returns(<<Rec("Improve Sleep Habits", "high")>>)
             ELSE Returns(<<>>)

_generate_wellness_recommendations(doc) ==
    Then(MoodRule(doc.mood), SleepRule(doc.sleep))

\* mutant: every year outside 3rd, 4th and Final gets the medium entry
ExperienceRule_everyyear(experiences_doc, profile) ==
    IF experiences_doc # <<>> THEN Returns(<<>>)
    ELSE IF profile = "None" THEN Raises("AttributeError")
    ELSE Returns(<<Rec("Gain Practical Experience",
                       IF profile \in {"3rd Year", "4th Year", "Final Year"}
                       THEN "high" ELSE "medium")>>)

\* the experience rule; self.student_profile.get raises AttributeError when
\* the profile is None
ExperienceRule(experiences_doc, profile) ==
    IF experiences_doc # <<>> THEN Returns(<<>>)
    ELSE IF profile = "None" THEN Raises("AttributeError")
    ELSE IF profile \in {"2nd Year", "3rd Year", "4th Year", "Final Year"}
    THEN Returns(<<Rec("Gain Practical Experience",
                       IF profile \in {"3rd Year", "4th Year", "Final Year"}
                       THEN "high" ELSE "medium")>>)
    ELSE Returns(<<>>)

_generate_career_recommendations(doc, profile) ==
    Then(Returns(IF ~doc.interests
                 THEN <<Rec("Define Your Career Interests", "medium")>> ELSE <<>>),
         Then(Returns(IF doc.skills = <<>>
                      THEN <<Rec("Start Tracking Skills", "low")>> ELSE <<>>),
              ExperienceRule(doc.experiences, profile)))

\* priority_order.get(x.get("priority", "low"), 0)
priority_order(priority) ==
    CASE priority = "high" -> 3
      [] priority = "medium" -> 2
      [] priority = "low" -> 1
      [] OTHER -> 0

\* mutant: a sort that puts an entry before the entries of its own priority
RECURSIVE InsertByPriority_unstable(_, _)
InsertByPriority_unstable(rec, sorted) ==
    IF sorted = <<>> THEN <<rec>>
    ELSE IF priority_order(rec.priority) >= priority_order(Head(sorted).priority)
         THEN <<rec>> \o sorted
         ELSE <<Head(sorted)>> \o InsertByPriority_unstable(rec, Tail(sorted))

\* insert rec into a list sorted by descending priority, after the entries
\* of its own priority (list.sort is stable, with reverse=True too)
RECURSIVE InsertByPriority(_, _)
InsertByPriority(rec, sorted) ==
    IF sorted = <<>> THEN <<rec>>
    ELSE IF priority_order(rec.priority) > priority_order(Head(sorted).priority)
         THEN <<rec>> \o sorted
         ELSE <<Head(sorted)>> \o InsertByPriority(rec, Tail(sorted))

\* recommendations.sort(key=..., reverse=True)
RECURSIVE SortByPriority(_)
SortByPriority(recs) ==
    IF recs = <<>> THEN <<>>
    ELSE InsertByPriority(recs[Len(recs)], SortByPriority(SubSeq(recs, 1, Len(recs) - 1)))

\* the four generators in the order get_personalized_recommendations calls
\* them, before the sort
Generate(docs, profile) ==
    Then(_generate_academic_recommendations(docs.academic),
         Then(_generate_financial_recommendations(docs.financial),
              Then(_generate_wellness_recommendations(docs.wellness),
                   _generate_career_recommendations(docs.career, profile))))

\* mutant: the cached list is never reused
CacheIsFresh_never(cache, last, current_time) == FALSE

\* self.recommendations_cache and self.last_update and
\* datetime.now() - self.last_update < timedelta(hours=1); an empty list is
\* as false as None
CacheIsFresh(cache, last, current_time) ==
    /\ cache # <<>> /\ cache[1] # <<>>
    /\ last # NoTime
    /\ current_time - last[1] < 2

\* get_personalized_recommendations: what it returns or raises, the cache
\* and last_update it leaves, and whether it ran the generators
get_personalized_recommendations(cache, last, current_time, profile, docs) ==
    IF CacheIsFresh(cache, last, current_time)
    THEN [exc |-> "none", val |-> cache[1], cache |-> cache, last_update |-> last,
          recomputed |-> FALSE]
    ELSE LET generated == Generate(docs, profile)
         IN  IF generated.exc # "none"
             THEN [exc |-> generated.exc, val |-> <<>>, cache |-> cache,
                   last_update |-> last, recomputed |-> TRUE]
             ELSE LET recommendations == SortByPriority(generated.val)
                  IN  [exc |-> "none", val |-> recommendations,
                       cache |-> <<recommendations>>,
                       last_update |-> At(current_time), recomputed |-> TRUE]

\* the documents a tracker module can have written
AcademicDocs ==
    { [tasks |-> <<>>, performance |-> <<>>, study_hours |-> <<>>],
      [tasks |-> <<Task(<<1>>, "pending", TRUE), Task(<<1>>, "pending", TRUE),
                   Task(<<2>>, "pending", TRUE), Task(<<3>>, "pending", TRUE)>>,
       performance |-> <<[semester_index |-> 1, cgpa |-> 8],
                         [semester_index |-> 2, cgpa |-> 7]>>,
       study_hours |-> <<>>],
      [tasks |-> <<Task(<<2>>, "pending", TRUE), Task(<<9>>, "pending", TRUE),
                   Task(<<1>>, "completed", TRUE)>>,
       performance |-> <<>>,
       study_hours |-> <<Dated(<<10>>, 5)>>],
      [tasks |-> <<Task(<<1>>, "pending", FALSE)>>, performance |-> <<>>,
       study_hours |-> <<>>] }

Spent(amount) == [date |-> <<IsoDate(0, 2, 0)>>, amount |-> amount, category |-> "Food"]
FinancialDocs ==
    { [transactions |-> <<>>, budget |-> <<>>, financial_aid |-> <<>>, goals |-> <<>>],
      [transactions |-> <<Spent(-4)>>, budget |-> [c \in {"Food"} |-> 2],
       financial_aid |-> <<"aid">>, goals |-> <<"Emergency fund">>],
      [transactions |-> <<Spent(-1)>>, budget |-> [c \in {"Food"} |-> 2],
       financial_aid |-> <<"aid">>, goals |-> <<"Emergency fund">>],
      [transactions |-> <<[date |-> <<>>, amount |-> -1, category |-> "Food"]>>,
       budget |-> [c \in {"Food"} |-> 2],
       financial_aid |-> <<"aid">>, goals |-> <<"Emergency fund">>] }

WellnessDocs ==
    { [mood |-> <<>>, sleep |-> <<>>],
      [mood |-> <<Mood(<<1>>, 2, <<"Exams">>), Mood(<<2>>, 2, <<"Exams">>),
                  Mood(<<3>>, 2, <<"Exams">>)>>,
       sleep |-> <<Dated(<<1>>, 5)>>],
      [mood |-> <<Mood(<<10>>, 5, <<>>)>>, sleep |-> <<Dated(<<1>>, 8)>>],
      [mood |-> <<Mood(<<>>, 5, <<>>)>>, sleep |-> <<>>] }

CareerDocs ==
    { [interests |-> FALSE, skills |-> <<>>, experiences |-> <<>>],
      [interests |-> TRUE, skills |-> <<"skill">>, experiences |-> <<"experience">>] }

Docs(module) ==
    CASE module = "academic" -> AcademicDocs
      [] module = "financial" -> FinancialDocs
      [] module = "wellness" -> WellnessDocs
      [] module = "career" -> CareerDocs

\* what load_student_profile gives the engine: None, or the year of study
ProfileValues == {"None", "2nd Year", "3rd Year"}

\* the tasks a student adds: overdue, due in 2 days, due in 2 days and
\* completed, due in 9 days, without a due date, and due in 2 days but
\* stored without type, title or course_code
TaskValues ==
    { Task(<<-5>>, "pending", TRUE), Task(<<2>>, "pending", TRUE),
      Task(<<2>>, "completed", TRUE), Task(<<9>>, "pending", TRUE),
      Task(<<>>, "pending", TRUE), Task(<<2>>, "pending", FALSE) }

\* the year_of_study of a profile that load_student_profile found
YearValues == {"1st Year", "2nd Year", "3rd Year", "Final Year"}

EngineCall(op, result) ==
    [op |-> op, exc |-> result.exc, val |-> result.val, recomputed |-> result.recomputed]
NoResult == [exc |-> "none", val |-> <<>>, recomputed |-> FALSE]

(***************************************************************************)
(* AcademicTracker.courses, the pattern every tracker collection follows   *)
(* (tasks, goals, skills, experiences): add appends and saves, update      *)
(* changes the first record with the identifier and saves, delete filters  *)
(* the list and saves when it got shorter.  A course is its course_id and  *)
(* its title.  An identifier the caller supplies is a small number, one    *)
(* that uuid.uuid4() makes is a number above 100.                          *)
(***************************************************************************)
SuppliedIds == {1}
Uuids == 101..(101 + MaxCourses)
Course(course_id, title) == [course_id |-> course_id, title |-> title]
CourseIdsOf(list) == {list[i].course_id : i \in 1..Len(list)}

\* str(uuid.uuid4()): an identifier no stored record carries
uuid4(taken) == CHOOSE u \in Uuids : u \notin taken /\ \A v \in Uuids \ taken : u <= v

\* the updates dicts a caller passes to update_course
UpdateValues == { [key |-> "title", value |-> "new"], [key |-> "course_id", value |-> 1] }

\* the result of a course operation: the value returned, the list the
\* tracker holds afterwards, and whether save_data was called
CourseResult(ret, list, saved) == [returned |-> ret, courses |-> list, saved |-> saved]

\* course_data is <<>> without "course_id", or <<id>> with the caller's id
add_course(list, course_data, ok) ==
    LET course_id == IF course_data = <<>> THEN uuid4(CourseIdsOf(list))
                     ELSE course_data[1]
    IN  CourseResult(ok, Append(list, Course(course_id, "old")), TRUE)

\* mutant: an identifier that is not found is added as a new record
update_course_upsert(list, course_id, updates, ok) ==
    LET matches == {i \in 1..Len(list) : list[i].course_id = course_id}
    IN  IF matches = {}
        THEN CourseResult(ok, Append(list, Course(course_id, "new")), TRUE)
        ELSE LET i == SetMin(matches)
             IN  CourseResult(ok, [list EXCEPT ![i][updates.key] = updates.value], TRUE)

update_course(list, course_id, updates, ok) ==
    LET matches == {i \in 1..Len(list) : list[i].course_id = course_id}
    IN  IF matches = {} THEN CourseResult(FALSE, list, FALSE)
        ELSE LET i == SetMin(matches)
             IN  CourseResult(ok, [list EXCEPT ![i][updates.key] = updates.value], TRUE)

delete_course(list, course_id, ok) ==
    LET Keeps(course) == course.course_id # course_id
        kept == SelectSeq(list, Keeps)
    IN  IF Len(kept) < Len(list) THEN CourseResult(ok, kept, TRUE)
        ELSE CourseResult(FALSE, kept, FALSE)

CourseCall(op, found, ret, saved) ==
    [op |-> op, found |-> found, returned |-> ret, saved |-> saved]

(***************************************************************************)
(* MentalWellnessCoach: the wellness habits.  A date is a day number, so   *)
(* yesterday is today - 1; last_completed is <<>> for None.                *)
(***************************************************************************)
HabitIds == {"h1", "h2"}

\* the tracking fields add_wellness_habit initialises
Habit(habit_id) ==
    [habit_id |-> habit_id, current_streak |-> 0, longest_streak |-> 0,
     last_completed |-> <<>>, completion_history |-> <<>>]

HabitResult(ret, list, saved) == [returned |-> ret, habits |-> list, saved |-> saved]

add_wellness_habit(list, habit_id, ok) ==
    HabitResult(ok, Append(list, Habit(habit_id)), TRUE)

\* mutant: the check for a completion already logged today is left out
log_habit_completion_twice(list, habit_id, day, ok) ==
    LET matches == {i \in 1..Len(list) : list[i].habit_id = habit_id}
    IN  IF matches = {} THEN HabitResult(FALSE, list, FALSE)
        ELSE LET i == SetMin(matches)
                 logged == [list[i] EXCEPT !.completion_history = Append(@, day),
                                           !.last_completed = <<day>>,
                                           !.current_streak = 1,
                                           !.longest_streak = IF @ < 1 THEN 1 ELSE @]
             IN  HabitResult(ok, [list EXCEPT ![i] = logged], TRUE)

\* habit is self.habits[i] itself, so the last_completed the streak is
\* computed from is read after today has been stored in it
log_habit_completion(list, habit_id, day, ok) ==
    LET matches == {i \in 1..Len(list) : list[i].habit_id = habit_id}
    IN  IF matches = {} THEN HabitResult(FALSE, list, FALSE)
        ELSE LET i == SetMin(matches)
                 habit == list[i]
                 completion_history == habit.completion_history
             IN  IF /\ completion_history # <<>>
                    /\ completion_history[Len(completion_history)] = day
                 THEN HabitResult(FALSE, list, FALSE)
                 ELSE LET logged == [habit EXCEPT
                                        !.completion_history = Append(@, day),
                                        !.last_completed = <<day>>]
                          last_completed == logged.last_completed
                          yesterday == day - 1
                          current_streak ==
                              IF last_completed # <<>>
                              THEN IF last_completed[1] = yesterday
                                   THEN logged.current_streak + 1
                                   ELSE 1
                              ELSE 1
                          longest_streak ==
                              IF current_streak > logged.longest_streak
                              THEN current_streak ELSE logged.longest_streak
                          updated == [logged EXCEPT !.current_streak = current_streak,
                                                    !.longest_streak = longest_streak]
                      IN  HabitResult(ok, [list EXCEPT ![i] = updated], TRUE)

\* the record of a habit call: the operation, its habit_id, the value
\* returned and whether save_data was called
HabitCall(op, habit_id, ret, saved) ==
    [op |-> op, habit_id |-> habit_id, returned |-> ret, saved |-> saved]

(***************************************************************************)
(* Specification of the academic tracker                                   *)
(***************************************************************************)
Init ==
    /\ performance = <<>>
    /\ diskPerformance = <<>>
    /\ raised = "none"
    /\ transactions = <<>>
    /\ budget = [c \in {} |-> 0]
    /\ diskTransactions = <<>>
    /\ diskBudget = [c \in {} |-> 0]
    /\ career_data = [interests |-> FALSE, target_roles |-> FALSE,
                      resume |-> FALSE, network_size |-> 0]
    /\ skills = <<>>
    /\ experiences = <<>>
    /\ opportunities = <<>>
    /\ returned = TRUE
    /\ cached_content = [academic_trends |-> "None", financial_tips |-> "None",
                         wellness_tips |-> "None", career_insights |-> "None",
                         education_news |-> "None", finance_news |-> "None",
                         wellness_news |-> "None", career_news |-> "None",
                         last_updated |-> NoTime]
    /\ groq_api_key = "None"
    /\ ai_initialized = FALSE
    /\ student_profile = FALSE
    /\ now = 0
    /\ call = Call("start", FALSE, 0)
    /\ replies = <<>>
    /\ all_failed = TRUE
    /\ resources = <<>>
    /\ search = [query |-> <<>>, resources_data |-> "None"]
    /\ files = [academic |-> [tasks |-> <<>>, performance |-> <<>>, study_hours |-> <<>>],
                financial |-> [transactions |-> <<>>, budget |-> <<>>,
                               financial_aid |-> <<>>, goals |-> <<>>],
                wellness |-> [mood |-> <<>>, sleep |-> <<>>],
                career |-> [interests |-> FALSE, skills |-> <<>>, experiences |-> <<>>]]
    /\ engine_profile = "None"
    /\ recommendations_cache = <<>>
    /\ last_update = NoTime
    /\ engine_now = 0
    /\ engine_call = EngineCall("start", NoResult)
    /\ courses = <<>>
    /\ diskCourses = <<>>
    /\ course_call = CourseCall("start", FALSE, TRUE, FALSE)
    /\ habits = <<>>
    /\ diskHabits = <<>>
    /\ today = 0
    /\ habit_call = HabitCall("start", "", FALSE, FALSE)
    /\ logins = 0
    /\ acknowledged = {}

AddSemester ==
    \E idx \in SemesterIndexes, graded \in BOOLEAN, sgpa \in SgpaValues,
       credits \in CreditValues, ok \in SaveOutcomes :
        /\ (~graded => sgpa = 6 /\ credits = 0)
        /\ add_semester_performance(idx, graded, sgpa, credits, ok)
        /\ UNCHANGED <<financialVars, careerVars, cacheVars, engineVars, moreVars>>

ReloadAcademic ==
    /\ AcademicTrackerInit
    /\ UNCHANGED <<financialVars, careerVars, cacheVars, engineVars, moreVars>>

NextAcademic ==
    \/ AddSemester
    \/ ReloadAcademic

SpecAcademic == Init /\ [][NextAcademic]_vars

(***************************************************************************)
(* Specification of the financial planner                                  *)
(***************************************************************************)
AddTransaction ==
    \E amount \in AmountValues, category \in Categories, date \in DateValues,
       ok \in SaveOutcomes :
        /\ add_transaction(amount, category, date, ok)
        /\ UNCHANGED <<academicVars, careerVars, cacheVars, engineVars, moreVars>>

SetBudget ==
    \E budget_data \in BudgetValues, ok \in SaveOutcomes :
        /\ set_budget(budget_data, ok)
        /\ UNCHANGED <<academicVars, careerVars, cacheVars, engineVars, moreVars>>

ReloadFinancial ==
    /\ FinancialPlannerInit
    /\ UNCHANGED <<academicVars, careerVars, cacheVars, engineVars, moreVars>>

NextFinancial ==
    \/ AddTransaction
    \/ SetBudget
    \/ ReloadFinancial

SpecFinancial == Init /\ [][NextFinancial]_vars

(***************************************************************************)
(* Specification of the career guide                                       *)
(***************************************************************************)
UpdateCareerPreferences ==
    \E preferences \in PreferenceValues, ok \in SaveOutcomes :
        /\ update_career_preferences(preferences, ok)
        /\ UNCHANGED <<academicVars, financialVars, cacheVars, engineVars, moreVars>>

AddSkill ==
    \E ok \in SaveOutcomes :
        add_skill(ok) /\ UNCHANGED <<academicVars, financialVars, cacheVars, engineVars, moreVars>>

DeleteSkill ==
    \E found \in BOOLEAN, ok \in SaveOutcomes :
        delete_skill(found, ok) /\ UNCHANGED <<academicVars, financialVars, cacheVars, engineVars, moreVars>>

AddExperience ==
    \E ok \in SaveOutcomes :
        add_experience(ok) /\ UNCHANGED <<academicVars, financialVars, cacheVars, engineVars, moreVars>>

DeleteExperience ==
    \E found \in BOOLEAN, ok \in SaveOutcomes :
        delete_experience(found, ok) /\ UNCHANGED <<academicVars, financialVars, cacheVars, engineVars, moreVars>>

AddOpportunity ==
    \E status \in Statuses, ok \in SaveOutcomes :
        add_opportunity(status, ok) /\ UNCHANGED <<academicVars, financialVars, cacheVars, engineVars, moreVars>>

NextCareer ==
    \/ UpdateCareerPreferences
    \/ AddSkill
    \/ DeleteSkill
    \/ AddExperience
    \/ DeleteExperience
    \/ AddOpportunity

SpecCareer == Init /\ [][NextCareer]_vars

(***************************************************************************)
(* Specification of the content cache                                      *)
(***************************************************************************)
trackerVars == <<academicVars, financialVars, careerVars, engineVars, moreVars>>

\* the clock advances by half a day
Tick ==
    /\ now < MaxTime
    /\ now' = now + 1
    /\ call' = Call("tick", FALSE, 0)
    /\ replies' = <<>>
    /\ UNCHANGED <<cached_content, groq_api_key, ai_initialized, student_profile,
                   all_failed, resources, search>>
    /\ UNCHANGED trackerVars

\* update_content_cache called on its own, against a service that answers
\* with one of the given patterns
UpdateContentCacheWith(patterns) ==
    \E force \in BOOLEAN :
      \E pattern \in PatternsFor(patterns,
                                 Refreshes(cached_content, force, ai_initialized,
                                           student_profile, now)) :
        LET result == update_content_cache(cached_content, force, pattern,
                                           ai_initialized, student_profile, now)
        IN  /\ cached_content' = result.cache
            /\ call' = Call("update_content_cache", force, result.requests)
            /\ replies' = Served(pattern, result.requests)
            /\ all_failed' = StillAllFailed(all_failed, replies')
            /\ UNCHANGED <<groq_api_key, ai_initialized, student_profile, now,
                           resources, search>>
            /\ UNCHANGED trackerVars

UpdateContentCache == UpdateContentCacheWith(ResponsePatterns)

\* initialize_modules for a student whose profile loads: the session gets
\* the profile, then update_content_cache(True) runs
InitializeModulesWith(patterns) ==
    \E pattern \in PatternsFor(patterns, ai_initialized) :
        LET result == update_content_cache(cached_content, TRUE, pattern,
                                           ai_initialized, TRUE, now)
        IN  /\ student_profile' = TRUE
            /\ cached_content' = result.cache
            /\ call' = Call("initialize_modules", TRUE, result.requests)
            /\ replies' = Served(pattern, result.requests)
            /\ all_failed' = StillAllFailed(all_failed, replies')
            /\ UNCHANGED <<groq_api_key, ai_initialized, now, resources, search>>
            /\ UNCHANGED trackerVars

InitializeModules == InitializeModulesWith(ResponsePatterns)

\* the logout button of the sidebar
Logout ==
    /\ student_profile
    /\ student_profile' = FALSE
    /\ call' = Call("logout", FALSE, 0)
    /\ replies' = <<>>
    /\ UNCHANGED <<cached_content, groq_api_key, ai_initialized, now, all_failed,
                   resources, search>>
    /\ UNCHANGED trackerVars

\* the "Save API Key" button of show_ai_settings
SaveApiKeyWith(patterns) ==
    \E api_key \in {"gsk_", "", "invalid"} :
      \E pattern \in PatternsFor(patterns, api_key = "gsk_" /\ student_profile) :
        /\ IF api_key = "gsk_"
           THEN LET reset == [cached_content EXCEPT !.last_updated = NoTime]
                    result == update_content_cache(reset, TRUE, pattern,
                                                   TRUE, student_profile, now)
                IN  /\ groq_api_key' = api_key
                    /\ ai_initialized' = TRUE
                    /\ cached_content' = result.cache
                    /\ call' = Call("save_api_key", TRUE, result.requests)
                    /\ replies' = Served(pattern, result.requests)
                    /\ all_failed' = StillAllFailed(all_failed, replies')
           ELSE IF api_key = ""
           THEN /\ groq_api_key' = "None"
                /\ call' = Call("save_api_key", FALSE, 0)
                /\ replies' = <<>>
                /\ UNCHANGED <<ai_initialized, cached_content, all_failed>>
           ELSE /\ call' = Call("save_api_key", FALSE, 0)
                /\ replies' = <<>>
                /\ UNCHANGED <<groq_api_key, ai_initialized, cached_content, all_failed>>
        /\ UNCHANGED <<student_profile, now, resources, search>>
        /\ UNCHANGED trackerVars

SaveApiKey == SaveApiKeyWith(ResponsePatterns)

NextCache ==
    \/ Tick
    \/ UpdateContentCache
    \/ InitializeModules
    \/ Logout
    \/ SaveApiKey

SpecCache == Init /\ [][NextCache]_vars

(***************************************************************************)
(* Specification of the resource search, next to a content cache that is   *)
(* refreshed against a service that is up or down throughout a refresh     *)
(***************************************************************************)
\* the search button of show_resources_page
SearchResources ==
    \E search_query \in Queries :
      \E response \in IF search_resources(search_query, "array", groq_api_key,
                                          ai_initialized, resources).requests = 0
                       THEN {"transport_error"} ELSE SearchResponses :
        LET result == search_resources(search_query, response, groq_api_key,
                                       ai_initialized, resources)
        IN  /\ resources' = result.resources
            /\ search' = [query |-> search_query,
                          resources_data |-> result.resources_data]
            /\ call' = Call("search_resources", FALSE, result.requests)
            /\ replies' = IF result.requests = 0 THEN <<>> ELSE <<response>>
            /\ all_failed' = StillAllFailed(all_failed, replies')
            /\ UNCHANGED <<cached_content, groq_api_key, ai_initialized,
                           student_profile, now>>
            /\ UNCHANGED trackerVars

SteadyUpdateContentCache == UpdateContentCacheWith(SteadyPatterns)
SteadyInitializeModules == InitializeModulesWith(SteadyPatterns)
SteadySaveApiKey == SaveApiKeyWith(SteadyPatterns)

NextResources ==
    \/ Tick
    \/ SearchResources
    \/ SteadyUpdateContentCache
    \/ SteadyInitializeModules
    \/ SteadySaveApiKey
    \/ Logout

SpecResources == Init /\ [][NextResources]_vars

(***************************************************************************)
(* Specification of the prediction engine                                  *)
(***************************************************************************)
otherVars == <<academicVars, financialVars, careerVars, cacheVars, moreVars>>

\* the engine's clock advances by half an hour
EngineTick ==
    /\ engine_now < MaxClock
    /\ engine_now' = engine_now + 1
    /\ engine_call' = EngineCall("tick", NoResult)
    /\ UNCHANGED <<files, engine_profile, recommendations_cache, last_update>>
    /\ UNCHANGED otherVars

\* a tracker module saves the documents of its directory
StoreDocumentsOf(modules) ==
    \E module \in modules :
      \E doc \in Docs(module) :
        /\ files' = [files EXCEPT ![module] = doc]
        /\ engine_call' = EngineCall("store", NoResult)
        /\ UNCHANGED <<engine_profile, recommendations_cache, last_update, engine_now>>
        /\ UNCHANGED otherVars

StoreDocuments == StoreDocumentsOf(DOMAIN files)

\* PredictiveEngine(student_id, data_manager), as initialize_modules makes it
PredictiveEngineInitWith(profiles) ==
    \E profile \in profiles :
        /\ engine_profile' = profile
        /\ recommendations_cache' = <<>>
        /\ last_update' = NoTime
        /\ engine_call' = EngineCall("init", NoResult)
        /\ UNCHANGED <<files, engine_now>>
        /\ UNCHANGED otherVars

PredictiveEngineInit == PredictiveEngineInitWith(ProfileValues)

\* the dashboard asks for the recommendations
GetPersonalizedRecommendations ==
    LET result == get_personalized_recommendations(recommendations_cache, last_update,
                                                   engine_now, engine_profile, files)
    IN  /\ recommendations_cache' = result.cache
        /\ last_update' = result.last_update
        /\ engine_call' = EngineCall("get_personalized_recommendations", result)
        /\ UNCHANGED <<files, engine_profile, engine_now>>
        /\ UNCHANGED otherVars

NextEngine ==
    \/ EngineTick
    \/ StoreDocuments
    \/ PredictiveEngineInit
    \/ GetPersonalizedRecommendations

SpecEngine == Init /\ [][NextEngine]_vars

(***************************************************************************)
(* Specification of the engine's triggers: the student adds tasks one by   *)
(* one and the career guide saves its documents, while the engine of a     *)
(* student whose profile is stored answers the dashboard                   *)
(***************************************************************************)
\* AcademicTracker.add_task, seen from the tasks document it saves
AddTask ==
    \E task \in TaskValues :
        /\ Len(files.academic.tasks) < MaxTasks
        /\ files' = [files EXCEPT !.academic.tasks = Append(@, task)]
        /\ engine_call' = EngineCall("add_task", NoResult)
        /\ UNCHANGED <<engine_profile, recommendations_cache, last_update, engine_now>>
        /\ UNCHANGED otherVars

StoreCareerDocuments == StoreDocumentsOf({"career"})
ProfiledEngineInit == PredictiveEngineInitWith(YearValues)

NextTriggers ==
    \/ AddTask
    \/ StoreCareerDocuments
    \/ ProfiledEngineInit
    \/ GetPersonalizedRecommendations

SpecTriggers == Init /\ [][NextTriggers]_vars

(***************************************************************************)
(* Specification of a tracker collection (the courses)                     *)
(***************************************************************************)
restVars == <<academicVars, financialVars, careerVars, cacheVars, engineVars>>

\* what a course operation leaves: the list in memory, the document when
\* the save was called and went through, and the record of the call
CourseStep(op, found, result, ok) ==
    /\ courses' = result.courses
    /\ diskCourses' = IF result.saved THEN save_data(ok, diskCourses, result.courses)
                      ELSE diskCourses
    /\ course_call' = CourseCall(op, found, result.returned, result.saved)
    /\ UNCHANGED <<restVars, habitVars, sessionVars>>

AddCourse ==
    \E course_data \in {<<>>} \cup {<<id>> : id \in SuppliedIds}, ok \in SaveOutcomes :
        /\ Len(courses) < MaxCourses
        /\ CourseStep("add_course", FALSE, add_course(courses, course_data, ok), ok)

UpdateCourse ==
    \E course_id \in SuppliedIds \cup Uuids, updates \in UpdateValues, ok \in SaveOutcomes :
        CourseStep("update_course", course_id \in CourseIdsOf(courses),
                   update_course(courses, course_id, updates, ok), ok)

DeleteCourse ==
    \E course_id \in SuppliedIds \cup Uuids, ok \in SaveOutcomes :
        CourseStep("delete_course", course_id \in CourseIdsOf(courses),
                   delete_course(courses, course_id, ok), ok)

\* AcademicTracker.__init__: a new tracker for the same student
ReloadCourses ==
    /\ courses' = load_data_or_empty(diskCourses)
    /\ course_call' = CourseCall("init", FALSE, TRUE, FALSE)
    /\ UNCHANGED diskCourses
    /\ UNCHANGED <<restVars, habitVars, sessionVars>>

NextCourses ==
    \/ AddCourse
    \/ UpdateCourse
    \/ DeleteCourse
    \/ ReloadCourses

SpecCourses == Init /\ [][NextCourses]_vars

(***************************************************************************)
(* Specification of the wellness habits                                    *)
(***************************************************************************)
HabitStep(op, habit_id, result, ok) ==
    /\ habits' = result.habits
    /\ diskHabits' = IF result.saved THEN save_data(ok, diskHabits, result.habits)
                     ELSE diskHabits
    /\ habit_call' = HabitCall(op, habit_id, result.returned, result.saved)
    /\ UNCHANGED today
    /\ UNCHANGED <<restVars, courseVars, sessionVars>>

\* midnight passes
NextDay ==
    /\ today < MaxDay
    /\ today' = today + 1
    /\ habit_call' = HabitCall("next_day", "", FALSE, FALSE)
    /\ UNCHANGED <<habits, diskHabits>>
    /\ UNCHANGED <<restVars, courseVars, sessionVars>>

AddWellnessHabit ==
    \E habit_id \in HabitIds, ok \in SaveOutcomes :
        /\ Len(habits) < MaxHabits
        /\ HabitStep("add_wellness_habit", habit_id,
                     add_wellness_habit(habits, habit_id, ok), ok)

LogHabitCompletion ==
    \E habit_id \in HabitIds, ok \in SaveOutcomes :
        HabitStep("log_habit_completion", habit_id,
                  log_habit_completion(habits, habit_id, today, ok), ok)

\* MentalWellnessCoach.__init__: a new coach for the same student
ReloadHabits ==
    /\ habits' = load_data_or_empty(diskHabits)
    /\ habit_call' = HabitCall("init", "", FALSE, FALSE)
    /\ UNCHANGED <<diskHabits, today>>
    /\ UNCHANGED <<restVars, courseVars, sessionVars>>

NextHabits ==
    \/ NextDay
    \/ AddWellnessHabit
    \/ LogHabitCompletion
    \/ ReloadHabits

SpecHabits == Init /\ [][NextHabits]_vars

(***************************************************************************)
(* Specification of the planners of a session: every login makes the       *)
(* session's planner and then lets initialize_sample_data work through a   *)
(* planner of its own; the pages add transactions through the session's    *)
(* planner.  (The rest of initialize_sample_data writes wellness and       *)
(* academic documents only.)                                               *)
(***************************************************************************)
\* initialize_modules: st.session_state.financial_planner is created
\* from the documents, then initialize_sample_data runs
LoginFinancial ==
    \E oks \in [1..(Len(sample_transactions) + 1) -> SaveOutcomes] :
        LET result == initialize_sample_data(diskTransactions, diskBudget, oks)
        IN  /\ logins < MaxLogins
            /\ logins' = logins + 1
            /\ transactions' = load_data_or_empty(diskTransactions)
            /\ budget' = load_data_or_empty(diskBudget)
            /\ diskTransactions' = result.transactions
            /\ diskBudget' = result.budget
            /\ acknowledged' = acknowledged \cup result.added
            /\ UNCHANGED <<academicVars, careerVars, cacheVars, engineVars,
                           courseVars, habitVars>>

\* a page adds a transaction through the session's planner
SessionAddTransaction ==
    \E amount \in AmountValues, ok \in SaveOutcomes :
        LET category == "Food"
            date == IsoDate(0, 2, 0)
        IN  /\ logins > 0
            /\ add_transaction(amount, category, date, ok)
            /\ acknowledged' =
                   IF ok THEN acknowledged
                                \cup {[amount |-> amount, category |-> category,
                                       date |-> date]}
                   ELSE acknowledged
            /\ UNCHANGED logins
            /\ UNCHANGED <<academicVars, careerVars, cacheVars, engineVars,
                           courseVars, habitVars>>

NextSession ==
    \/ LoginFinancial
    \/ SessionAddTransaction

SpecSession == Init /\ [][NextSession]_vars

(***************************************************************************)
(* Properties of the academic tracker                                      *)
(***************************************************************************)
RECURSIVE PrefixCredits(_)
PrefixCredits(n) ==
    IF n = 0 THEN 0 ELSE performance[n].credits + PrefixCredits(n - 1)

RECURSIVE PrefixWeighted(_)
PrefixWeighted(n) ==
    IF n = 0 THEN 0
    ELSE performance[n].sgpa * performance[n].credits + PrefixWeighted(n - 1)

AllGraded(n) == \A i \in 1..n : performance[i].graded

\* C1: with every call carrying sgpa and credits, the cgpa stored on the
\* N-th inserted entry is sum(sgpa_i*credits_i)/sum(credits_i) over the
\* first N inserted entries whenever that credit total is positive, and the
\* first entry's cgpa is its sgpa.
C1_WeightedCgpa ==
    \A n \in 1..Len(performance) :
        AllGraded(n) =>
            /\ performance[n].has_cgpa
            /\ (n = 1 => RatEq(performance[1].cgpa, Rat(performance[1].sgpa, 1)))
            /\ (PrefixCredits(n) > 0 =>
                    RatEq(performance[n].cgpa, Rat(PrefixWeighted(n), PrefixCredits(n))))

\* three graded entries with unequal credits; the third cgpa is not its sgpa
C1_Witness ==
    /\ Len(performance) = 3
    /\ AllGraded(3)
    /\ performance[1].credits = 2 /\ performance[2].credits = 3
    /\ performance[1].sgpa # performance[2].sgpa
    /\ performance[3].credits > 0
    /\ ~RatEq(performance[3].cgpa, Rat(performance[3].sgpa, 1))

\* C2 as claimed: no division by zero, and whenever the total credits
\* (existing entries plus the new one) is 0 the stored cgpa is 0, for any
\* number of existing entries (none included).
C2_ZeroCreditsAlwaysZero ==
    /\ raised # "ZeroDivisionError"
    /\ \A n \in 1..Len(performance) :
           (performance[n].graded /\ PrefixCredits(n) = 0) =>
               RatEq(performance[n].cgpa, Rat(0, 1))

\* C2 as amended: no division by zero; when at least one entry exists and
\* the total credits is 0 the stored cgpa is 0; with no existing entry the
\* stored cgpa is the sgpa, whatever the credits.
C2_ZeroCreditsGuard ==
    /\ raised # "ZeroDivisionError"
    /\ \A n \in 1..Len(performance) :
           performance[n].graded =>
               /\ (n >= 2 /\ PrefixCredits(n) = 0) =>
                      RatEq(performance[n].cgpa, Rat(0, 1))
               /\ n = 1 => RatEq(performance[n].cgpa, Rat(performance[n].sgpa, 1))

\* a graded entry with sgpa 6 inserted after another one, all credits 0
C2_Witness ==
    /\ Len(performance) >= 2
    /\ performance[2].graded
    /\ performance[2].sgpa # 0
    /\ PrefixCredits(2) = 0
    /\ performance[1].graded /\ performance[1].sgpa # 0

\* credits and weighted sum over the entries among the first n whose
\* semester_index is at most idx
RECURSIVE CreditsUpTo(_, _)
CreditsUpTo(n, idx) ==
    IF n = 0 THEN 0
    ELSE (IF performance[n].semester_index <= idx THEN performance[n].credits ELSE 0)
         + CreditsUpTo(n - 1, idx)

RECURSIVE WeightedUpTo(_, _)
WeightedUpTo(n, idx) ==
    IF n = 0 THEN 0
    ELSE (IF performance[n].semester_index <= idx
          THEN performance[n].sgpa * performance[n].credits ELSE 0)
         + WeightedUpTo(n - 1, idx)

\* C3 as claimed: the cgpa of every stored entry is the credit-weighted
\* average of sgpa over exactly the entries present at its insertion whose
\* semester_index is at most its own.
C3_AverageUpToOwnIndex ==
    \A n \in 1..Len(performance) :
        LET idx == performance[n].semester_index
        IN  (AllGraded(n) /\ CreditsUpTo(n, idx) > 0) =>
                RatEq(performance[n].cgpa, Rat(WeightedUpTo(n, idx), CreditsUpTo(n, idx)))

MaxIndex == CHOOSE m \in {performance[i].semester_index : i \in 1..Len(performance)} :
                \A i \in 1..Len(performance) : performance[i].semester_index <= m

StoredCgpa(e) == IF e.has_cgpa THEN e.cgpa ELSE Rat(0, 1)

\* C4: get_current_cgpa is the cgpa field (0.0 if the entry carries none) of
\* an entry with the maximum semester_index, wherever that entry sits in
\* insertion order, and 0.0 when there are no entries.
C4_CurrentCgpa ==
    IF performance = <<>>
    THEN RatEq(get_current_cgpa(performance), Rat(0, 1))
    ELSE \E i \in 1..Len(performance) :
            /\ performance[i].semester_index = MaxIndex
            /\ RatEq(get_current_cgpa(performance), StoredCgpa(performance[i]))

\* the highest index was inserted first and later entries carry other cgpas
C4_Witness ==
    /\ Len(performance) = 3
    /\ AllGraded(3)
    /\ performance[1].semester_index = 3
    /\ performance[2].semester_index = 1
    /\ performance[3].semester_index = 2
    /\ ~RatEq(performance[1].cgpa, performance[3].cgpa)
    /\ ~RatEq(performance[1].cgpa, performance[2].cgpa)

\* C5: an insertion leaves every entry already in the collection as it was
\* (sgpa, credits, cgpa and position).
C5_ForwardOnly ==
    [][Len(performance') = Len(performance) + 1 =>
          /\ SubSeq(performance', 1, Len(performance)) = performance
          /\ \A i \in 1..Len(performance) :
                /\ performance'[i].sgpa = performance[i].sgpa
                /\ performance'[i].credits = performance[i].credits
                /\ performance'[i].cgpa = performance[i].cgpa]_vars

\* two later insertions after an entry whose cgpa they would change if
\* recomputed
C5_Witness ==
    /\ Len(performance) = 3
    /\ AllGraded(3)
    /\ performance[1].semester_index = 2
    /\ performance[2].semester_index = 1
    /\ performance[1].credits > 0 /\ performance[2].credits > 0
    /\ performance[1].sgpa # performance[2].sgpa

RECURSIVE MonthExpenseTotal(_, _)
\* sum of |amount| over the negative-amount transactions of category c
\* dated within the current calendar month
MonthExpenseTotal(txs, c) ==
    IF txs = <<>> THEN 0
    ELSE (IF Head(txs).category = c /\ Head(txs).amount < 0 /\ Head(txs).date.month = 0
          THEN Abs(Head(txs).amount) ELSE 0)
         + MonthExpenseTotal(Tail(txs), c)

\* C7 as claimed: the spending mapping counts exactly the negative-amount
\* transactions dated within the current calendar month; any other
\* transaction contributes to no category total.
C7_CurrentMonthOnly ==
    LET spending == get_actual_spending(transactions)
    IN  \A c \in Categories :
            (IF c \in DOMAIN spending THEN spending[c] ELSE 0)
                = MonthExpenseTotal(transactions, c)

RECURSIVE ExpenseTotal(_, _)
\* sum of |amount| over the negative-amount transactions of category c
ExpenseTotal(txs, c) ==
    IF txs = <<>> THEN 0
    ELSE (IF Head(txs).category = c /\ Head(txs).amount < 0
          THEN Abs(Head(txs).amount) ELSE 0)
         + ExpenseTotal(Tail(txs), c)

\* C8 as claimed: when every add_transaction succeeded (the persisted
\* document holds the planner's transactions), get_expenses_by_category has
\* exactly one pair for each category with a negative-amount transaction,
\* its amount the sum of the absolute values, ordered by amount descending.
C8_ExpensesByCategory ==
    transactions = diskTransactions =>
        LET result == get_expenses_by_category
        IN  /\ \A c \in Categories :
                  (\E i \in 1..Len(transactions) :
                      transactions[i].category = c /\ transactions[i].amount < 0)
                  <=> (\E i \in 1..Len(result) : result[i].category = c)
            /\ \A i, j \in 1..Len(result) :
                  i # j => result[i].category # result[j].category
            /\ \A i \in 1..Len(result) :
                  result[i].amount = ExpenseTotal(transactions, result[i].category)
            /\ \A i, j \in 1..Len(result) :
                  i < j => result[i].amount >= result[j].amount

(***************************************************************************)
(* Properties of the career guide                                          *)
(***************************************************************************)
NumApplied == Cardinality({i \in 1..Len(opportunities) : opportunities[i] = "Applied"})

\* five times the score the weights give: every term but network_size/5 is
\* a whole number of points
ReadinessTimes5 ==
    5 * ( (IF career_data.interests THEN 10 ELSE 0)
        + (IF career_data.target_roles THEN 10 ELSE 0)
        + (IF career_data.resume THEN 15 ELSE 0)
        + IntMin(20, 4 * Len(skills))
        + IntMin(25, 8 * Len(experiences))
        + IntMin(10, 2 * NumApplied) )
    + IntMin(50, career_data.network_size)

\* C9: the readiness score is 10 (interests) + 10 (target roles) + 15
\* (resume) + min(20, 4*skills) + min(25, 8*experiences) +
\* min(10, network_size/5) + min(10, 2*applications), clamped to [0,100],
\* and lies within [0,100] after any sequence of career-guide operations.
C9_CareerReadiness ==
    LET score == get_career_readiness_score(career_data, skills, experiences, opportunities)
        clamped == IF ReadinessTimes5 < 0 THEN 0
                   ELSE IF ReadinessTimes5 > 500 THEN 500 ELSE ReadinessTimes5
    IN  /\ RatEq(score, Rat(clamped, 5))
        /\ RatLeq(Rat(0, 1), score)
        /\ RatLeq(score, Rat(100, 1))

\* every capped component is above its cap and the network term is fractional
C9_Witness ==
    /\ Len(skills) = 6
    /\ Len(experiences) = 4
    /\ NumApplied = 6
    /\ career_data.network_size = 3
    /\ career_data.interests /\ ~career_data.target_roles /\ career_data.resume

(***************************************************************************)
(* Properties of the content cache                                         *)
(***************************************************************************)
Payloads(cache) ==
    <<cache.academic_trends, cache.financial_tips, cache.wellness_tips,
      cache.career_insights, cache.education_news, cache.finance_news,
      cache.wellness_news, cache.career_news>>

\* at least one day lies between last_updated and the clock
DayElapsed == now - cached_content.last_updated[1] >= 2

\* C10: update_content_cache issues requests only if force is true, or
\* last_updated is null, or at least one day has elapsed since last_updated;
\* otherwise it issues none and leaves every payload and last_updated as
\* they were.
C10_RefreshOnlyWhenStale ==
    [][call'.op = "update_content_cache" =>
          IF call'.force \/ cached_content.last_updated = NoTime \/ DayElapsed
          THEN TRUE
          ELSE /\ call'.requests = 0
               /\ Payloads(cached_content') = Payloads(cached_content)
               /\ cached_content'.last_updated = cached_content.last_updated]_vars

\* an unforced call half a day after a refresh, with everything else a
\* refresh needs in place, issued no request
C10_Witness ==
    /\ call.op = "update_content_cache"
    /\ ~call.force
    /\ call.requests = 0
    /\ ai_initialized /\ student_profile
    /\ cached_content.last_updated # NoTime
    /\ now - cached_content.last_updated[1] = 1

\* the step is an unforced update_content_cache that directly follows
\* another one, with no time elapsing between them
SecondUnforcedCall ==
    /\ call.op = "update_content_cache" /\ ~call.force
    /\ call'.op = "update_content_cache" /\ ~call'.force
    /\ now' = now

\* C11: of two consecutive update_content_cache(force=false) calls with no
\* time elapsing between them, at most one fetches any content-kind (the
\* requests of a call are issued in the order of the kinds, so one of the
\* two calls issues none), and the second leaves every payload as the
\* first left it.
C11_IdempotentUnforced ==
    [][SecondUnforcedCall =>
          /\ (call.requests = 0 \/ call'.requests = 0)
          /\ Payloads(cached_content') = Payloads(cached_content)]_vars

\* the reply to the k-th request of the last call was one of the given
\* responses (k in 1..4 is the request of MainKinds[k])
Replied(k, responses) == call.requests >= k /\ replies[k] \in responses

\* C12: when a refresh is attempted and the CompletionService fails for a
\* content-kind (transport error, non-success status or unparseable text),
\* that kind's payload becomes the static fallback list and last_updated
\* stays null or as it was, so that the next unforced call fetches again.
C12_FailureLeavesStale ==
    [][\A k \in 1..4 :
          (call'.requests >= k /\ replies'[k] \in FailureResponses \cup {"garbage"})
              => /\ cached_content'[MainKinds[k]] = "fallback"
                 /\ cached_content'.last_updated
                        \in {NoTime, cached_content.last_updated}]_vars

\* C13: while the CompletionService has failed on every call, each getter,
\* with or without an API key, raises nothing and returns the static
\* fallback list of its kind, and that list is not empty (for the news,
\* whatever the cache holds under that condition).
C13_FallbackGuarantee ==
    all_failed =>
        \A initialized \in BOOLEAN, response \in FailureResponses :
            /\ get_academic_trends(initialized, response) = "fallback"
            /\ get_financial_advice(initialized, response) = "fallback"
            /\ get_wellness_tips(initialized, response) = "fallback"
            /\ get_career_insights(initialized, response) = "fallback"
            /\ \A i \in 1..Len(MainKinds) :
                   /\ FallbackTable(MainKinds[i]).len > 0
                   /\ FallbackTable(MainKinds[i]).keys # {}
            /\ \A i \in 1..Len(NewsKeys) :
                   LET news == get_latest_news(initialized, response,
                                               cached_content[NewsKeys[i]])
                   IN  /\ news.exc = "none"
                       /\ news.val = "fallback"
                       /\ FallbackTable(NewsKeys[i]).len > 0
                       /\ FallbackTable(NewsKeys[i]).keys # {}

\* a whole refresh ran against a service that has never answered
C13_Witness ==
    /\ all_failed
    /\ call.requests = 8
    /\ \A i \in 1..8 : replies[i] \in FailureResponses
    /\ \A i \in 1..4 : /\ cached_content[MainKinds[i]] = "fallback"
                        /\ cached_content[NewsKeys[i]] = "fallback"

\* C14: a getter returns live content only for a text that parses to a
\* list: after a call whose reply for a kind was a number, an object, null
\* or unparseable text, that kind's payload is the static fallback list,
\* and every payload a getter returned is a list.
C14_NonListFallsBack ==
    \A k \in 1..4 :
        /\ Replied(k, {"scalar", "null", "garbage"})
               => cached_content[MainKinds[k]] = "fallback"
        /\ call.requests >= k
               => cached_content[MainKinds[k]] \in {"live", "fallback"}

\* C15: after update_content_cache(force=true) has returned, the payload
\* of each of the four content-kinds is a list, live or fallback.
C15_ForcedRefreshGivesLists ==
    call.force =>
        \A k \in 1..Len(MainKinds) :
            cached_content[MainKinds[k]] \in {"live", "fallback"}

\* C16: for a text holding a well-formed JSON array followed by prose with
\* brackets of its own, the payload is the parsed first array.
C16_FirstBalancedArray ==
    \A k \in 1..4 :
        Replied(k, {"array_then_brackets"}) => cached_content[MainKinds[k]] = "live"

(***************************************************************************)
(* Properties of the resource search                                       *)
(***************************************************************************)
\* C17: with an API key set, a search whose lower-cased and trimmed query
\* equals that of an earlier search issues no request and shows the result
\* the earlier search stored: every search with a key set leaves a result
\* stored under the lower-cased, trimmed query and shows it, issues no
\* request when one was stored already, and no step, whether time passes or
\* the content cache is refreshed, changes or drops a stored result.
C17_PerQueryCache ==
    [][/\ \A key \in DOMAIN resources :
              key \in DOMAIN resources' /\ resources'[key] = resources[key]
       /\ (call'.op = "search_resources" /\ groq_api_key # "None"
               /\ search'.query # <<>>)
              => LET key == strip(lower(search'.query))
                 IN  /\ key \in DOMAIN resources'
                     /\ search'.resources_data = resources'[key]
                     /\ key \in DOMAIN resources => call'.requests = 0]_vars

\* a search typed with other case and blanks than its stored key showed
\* the stored live result without a request, two ticks of the clock into
\* the session and right after a refresh of the content cache
C17_Witness ==
    /\ call.op = "search_resources" /\ call.requests = 0
    /\ search.query = <<" ", "P", "y", " ">>
    /\ search.resources_data = "live"
    /\ <<"p", "y">> \in DOMAIN resources
    /\ ai_initialized /\ groq_api_key # "None"
    /\ now >= 2
    /\ cached_content.last_updated = At(now)

(***************************************************************************)
(* Properties of the prediction engine                                     *)
(***************************************************************************)
\* the titles in the order the generators can append them: academic,
\* financial, wellness, career, and the order of the rules within each
GenerationOrder ==
    <<"Multiple Deadlines Approaching", "Due Soon", "CGPA Declining",
      "No Recent Study Sessions", "Low Study Hours",
      "Set Up Your Budget", "Budget Alert", "Explore Scholarship Opportunities",
      "Start an Emergency Fund",
      "Your Mood Has Been Low", "Managing a Stress Factor", "Start Tracking Your Mood",
      "Improve Sleep Habits",
      "Define Your Career Interests", "Start Tracking Skills", "Gain Practical Experience">>
GenerationIndex(rec) ==
    CHOOSE i \in 1..Len(GenerationOrder) : GenerationOrder[i] = rec.title
Rank(rec) ==
    CASE rec.priority = "high" -> 3 [] rec.priority = "medium" -> 2 [] rec.priority = "low" -> 1
Entries(recs) == {recs[i] : i \in 1..Len(recs)}
Returned == engine_call.op = "get_personalized_recommendations" /\ engine_call.exc = "none"

\* C18: a returned list has every high entry before every medium entry
\* before every low entry, entries of equal priority are in generation
\* order, and a list just computed holds exactly the generated entries.
C18_PriorityOrder ==
    Returned =>
        LET recs == engine_call.val
        IN  /\ \A i, j \in 1..Len(recs) :
                   i < j => \/ Rank(recs[i]) > Rank(recs[j])
                            \/ /\ Rank(recs[i]) = Rank(recs[j])
                               /\ GenerationIndex(recs[i]) < GenerationIndex(recs[j])
            /\ engine_call.recomputed =>
                   /\ Entries(recs) = Entries(Generate(files, engine_profile).val)
                   /\ Len(recs) = Len(Generate(files, engine_profile).val)

\* a returned list starts with the two high academic entries and has a
\* high wellness entry that was generated after a medium financial one
C18_Witness ==
    /\ Returned
    /\ Len(engine_call.val) >= 6
    /\ engine_call.val[1] = Rec("Multiple Deadlines Approaching", "high")
    /\ engine_call.val[2] = Rec("CGPA Declining", "high")
    /\ Rec("Explore Scholarship Opportunities", "medium") \in Entries(engine_call.val)
    /\ Rec("Improve Sleep Habits", "high") \in Entries(engine_call.val)
    /\ Rec("Start Tracking Skills", "low") \in Entries(engine_call.val)

\* C19: once the engine has produced a list, a call less than one hour
\* later returns that list without running the generators, and a call one
\* hour or more later runs them.
C19_CachedWithinTheHour ==
    [][(engine_call'.op = "get_personalized_recommendations" /\ last_update # NoTime)
          => IF engine_now - last_update[1] < 2
             THEN /\ ~engine_call'.recomputed
                  /\ engine_call'.exc = "none"
                  /\ engine_call'.val = recommendations_cache[1]
             ELSE engine_call'.recomputed]_vars

\* C19 (amended): once the engine has produced a list that is not empty,
\* a call less than one hour later returns that list without running the
\* generators, whatever the records have become; a call one hour or more
\* later, and any call after an empty list, runs the generators.
C19_CachedNonEmptyWithinTheHour ==
    [][(engine_call'.op = "get_personalized_recommendations" /\ last_update # NoTime)
          => IF engine_now - last_update[1] < 2 /\ recommendations_cache[1] # <<>>
             THEN /\ ~engine_call'.recomputed
                  /\ engine_call'.exc = "none"
                  /\ engine_call'.val = recommendations_cache[1]
                  /\ recommendations_cache' = recommendations_cache
                  /\ last_update' = last_update
             ELSE engine_call'.recomputed]_vars

\* half an hour after a list was computed, a call returned it although
\* the records would now give another list
C19_Witness ==
    /\ Returned
    /\ ~engine_call.recomputed
    /\ engine_call.val # <<>>
    /\ engine_now - last_update[1] = 1
    /\ Generate(files, engine_profile).exc = "none"
    /\ SortByPriority(Generate(files, engine_profile).val) # engine_call.val

\* what a generator contributes: its list, or nothing when it raised
Contribution(generated) == IF generated.exc = "none" THEN generated.val ELSE <<>>

\* C20: get_personalized_recommendations raises nothing, and a list it
\* computes holds what each generator that did not fail produced.
C20_NeverRaises ==
    engine_call.op = "get_personalized_recommendations" =>
        /\ engine_call.exc = "none"
        /\ engine_call.recomputed =>
               engine_call.val = SortByPriority(
                   Contribution(_generate_academic_recommendations(files.academic))
                   \o Contribution(_generate_financial_recommendations(files.financial))
                   \o Contribution(_generate_wellness_recommendations(files.wellness))
                   \o Contribution(_generate_career_recommendations(files.career,
                                                                    engine_profile)))

\* the deadline entries of a list of recommendations
IsDeadlineRec(rec) == rec.title \in {"Multiple Deadlines Approaching", "Due Soon"}

\* number of tasks that are not completed and due within the next 3 days
DueWithinThreeDays(tasks) ==
    Cardinality({i \in 1..Len(tasks) :
                    /\ tasks[i].due_date # <<>>
                    /\ tasks[i].due_date[1] >= 0
                    /\ tasks[i].due_date[1] <= 3
                    /\ tasks[i].status # "completed"})

\* C21: with 3 or more open tasks due within the next 3 days the academic
\* recommendations hold exactly one deadline entry, of priority high; with
\* 1 or 2 exactly one, of priority medium; with none, no deadline entry.
C21_DeadlineTrigger ==
    LET generated == _generate_academic_recommendations(files.academic)
        deadlines == SelectSeq(generated.val, IsDeadlineRec)
        due == DueWithinThreeDays(files.academic.tasks)
    IN  /\ generated.exc = "none"
        /\ due >= 3 => Len(deadlines) = 1 /\ deadlines[1].priority = "high"
        /\ due \in {1, 2} => Len(deadlines) = 1 /\ deadlines[1].priority = "medium"
        /\ due = 0 => deadlines = <<>>

\* the practical-experience entries of a list of recommendations
IsExperienceRec(rec) == rec.title = "Gain Practical Experience"
SeniorYears == {"3rd Year", "4th Year", "Final Year"}

C23_MissingRecordIsFalse ==
    [][(course_call'.op \in {"update_course", "delete_course"} /\ ~course_call'.found)
          => /\ course_call'.returned = FALSE
             /\ ~course_call'.saved
             /\ courses' = courses
             /\ diskCourses' = diskCourses]_vars

\* an update was refused for an identifier that is missing from a
\* collection that holds other records
C23_Witness ==
    /\ course_call.op = "update_course"
    /\ ~course_call.found
    /\ ~course_call.returned
    /\ Len(courses) = 2
    /\ diskCourses = courses

\* C24: no two records of the collection carry the same identifier, in
\* memory or in the stored document.
C24_UniqueIdentifiers ==
    /\ \A i, j \in 1..Len(courses) : i # j => courses[i].course_id # courses[j].course_id
    /\ \A i, j \in 1..Len(diskCourses) :
           i # j => diskCourses[i].course_id # diskCourses[j].course_id

\* C29: the list a tracker holds in memory equals the stored document,
\* also after an operation whose save failed.
C29_MemoryEqualsDocument ==
    courses = diskCourses

(***************************************************************************)
(* Properties of the wellness habits                                       *)
(***************************************************************************)
\* the habit a call works on: the first one with the identifier
HabitAt(list, habit_id) ==
    list[SetMin({i \in 1..Len(list) : list[i].habit_id = habit_id})]
Tracked(list, habit_id) == \E i \in 1..Len(list) : list[i].habit_id = habit_id
Logged == habit_call'.op = "log_habit_completion" /\ Tracked(habits, habit_call'.habit_id)

\* C25: a completion logged on the day after the previous completion
\* raises current_streak by 1; a first completion, or one after a gap of
\* more than a day, sets it to 1; longest_streak is raised to
\* current_streak whenever that is the larger.
C25_HabitStreaks ==
    [][Logged =>
          LET before == HabitAt(habits, habit_call'.habit_id)
              after == HabitAt(habits', habit_call'.habit_id)
          IN  (before.last_completed = <<>> \/ before.last_completed[1] # today) =>
                  /\ after.current_streak =
                         IF before.last_completed # <<>>
                            /\ before.last_completed[1] = today - 1
                         THEN before.current_streak + 1
                         ELSE 1
                  /\ after.longest_streak =
                         IF after.current_streak > before.longest_streak
                         THEN after.current_streak
                         ELSE before.longest_streak]_vars

\* C26: a second completion of a habit on the same day returns False,
\* calls no save, and leaves the habit's completion_history,
\* last_completed and streaks and the stored document as they were.
C26_OncePerDay ==
    [][(Logged /\ HabitAt(habits, habit_call'.habit_id).last_completed = <<today>>)
          => /\ habit_call'.returned = FALSE
             /\ ~habit_call'.saved
             /\ habits' = habits
             /\ diskHabits' = diskHabits]_vars

\* a second completion was refused on a day on which the habit, completed
\* the day before as well, had already been logged and saved
C26_Witness ==
    /\ habit_call.op = "log_habit_completion"
    /\ ~habit_call.returned /\ ~habit_call.saved
    /\ Tracked(habits, habit_call.habit_id)
    /\ HabitAt(habits, habit_call.habit_id).completion_history = <<today - 1, today>>
    /\ diskHabits = habits

(***************************************************************************)
(* Properties of the planners of a session                                 *)
(***************************************************************************)
\* C27: for a student whose transactions document is not empty, a login
\* leaves the stored transactions and the stored budget as they were.
C27_SamplesOnlyWhenEmpty ==
    [][(logins' = logins + 1 /\ diskTransactions # <<>>)
          => /\ diskTransactions' = diskTransactions
             /\ diskBudget' = diskBudget]_vars

\* C28: every transaction whose add_transaction returned True is in the
\* stored transactions document, whichever planner added it and whichever
\* planner has saved since.
C28_NoLostUpdate ==
    \A transaction \in acknowledged :
        \E i \in 1..Len(diskTransactions) : diskTransactions[i] = transaction

(***************************************************************************)
(* Properties of the AI settings                                           *)
(***************************************************************************)
\* C30: the AI agent is initialized exactly when the session holds an API
\* key, and without a key a refresh of the content cache issues no
\* request.
C30_AgentFollowsKey ==
    /\ ai_initialized <=> groq_api_key # "None"
    /\ (call.op \in {"update_content_cache", "initialize_modules"}
           /\ groq_api_key = "None") => call.requests = 0

====
